---- MODULE Spec2Model ----
(***************************************************************************)
(* A model of the IPAM server's address-space code (src/utils/ipUtils.ts)  *)
(* and of its allocation / reservation handlers (ipAddress.controller,     *)
(* reservation.controller).  Address texts are sequences of one-character  *)
(* strings, 32-bit numbers are JavaScript int32 values, 128-bit BigInts    *)
(* are sequences of eight 16-bit groups, most significant first.           *)
(***************************************************************************)
EXTENDS Integers, Sequences, FiniteSets, Bags, TLC

(***************************************************************************)
(* Text primitives (String.prototype.split / join / padStart, comparison)  *)
(***************************************************************************)

\* The characters of address texts, in code-unit order.
AsciiOrder ==
  << ".", "0", "1", "2", "3", "4", "5", "6", "7", "8", "9", ":",
     "A", "B", "C", "D", "E", "F", "a", "b", "c", "d", "e", "f" >>

CharRank(c) == CHOOSE i \in 1..Len(AsciiOrder) : AsciiOrder[i] = c

DecDigits == << "0", "1", "2", "3", "4", "5", "6", "7", "8", "9" >>

HexDigits ==
  << "0", "1", "2", "3", "4", "5", "6", "7", "8", "9", "a", "b", "c", "d", "e", "f" >>

IsDecDigit(c) == \E i \in 1..Len(DecDigits) : DecDigits[i] = c

DecValue(c) == (CHOOSE i \in 1..Len(DecDigits) : DecDigits[i] = c) - 1

\* parseInt(_, 16) reads upper- and lower-case digits alike.
LowerCase(c) ==
  CASE c = "A" -> "a" [] c = "B" -> "b" [] c = "C" -> "c"
    [] c = "D" -> "d" [] c = "E" -> "e" [] c = "F" -> "f" [] OTHER -> c

IsHexDigit(c) == \E i \in 1..Len(HexDigits) : HexDigits[i] = LowerCase(c)

HexValue(c) == (CHOOSE i \in 1..Len(HexDigits) : HexDigits[i] = LowerCase(c)) - 1

\* a <= b as the record store compares two strings (gte / lte on a text column).
RECURSIVE LexLeqFrom(_, _, _)
LexLeqFrom(a, b, i) ==
  IF i > Len(a) THEN TRUE
  ELSE IF i > Len(b) THEN FALSE
  ELSE IF a[i] = b[i] THEN LexLeqFrom(a, b, i + 1)
  ELSE CharRank(a[i]) < CharRank(b[i])

LexLeq(a, b) == LexLeqFrom(a, b, 1)

\* t.split(sep) for a one-character separator.
RECURSIVE SplitFrom(_, _, _, _)
SplitFrom(t, sep, i, cur) ==
  IF i > Len(t) THEN << cur >>
  ELSE IF t[i] = sep THEN << cur >> \o SplitFrom(t, sep, i + 1, << >>)
  ELSE SplitFrom(t, sep, i + 1, Append(cur, t[i]))

Split(t, sep) == SplitFrom(t, sep, 1, << >>)

\* t.split('::')
RECURSIVE SplitDoubleColonFrom(_, _, _)
SplitDoubleColonFrom(t, i, cur) ==
  IF i > Len(t) THEN << cur >>
  ELSE IF i < Len(t) /\ t[i] = ":" /\ t[i + 1] = ":"
    THEN << cur >> \o SplitDoubleColonFrom(t, i + 2, << >>)
  ELSE SplitDoubleColonFrom(t, i + 1, Append(cur, t[i]))

SplitDoubleColon(t) == SplitDoubleColonFrom(t, 1, << >>)

\* parts.filter(Boolean): the empty strings removed.
FilterNonEmpty(parts) == SelectSeq(parts, LAMBDA s : s # << >>)

\* parts.join(sep)
RECURSIVE Join(_, _)
Join(parts, sep) ==
  IF Len(parts) = 0 THEN << >>
  ELSE IF Len(parts) = 1 THEN parts[1]
  ELSE parts[1] \o << sep >> \o Join(Tail(parts), sep)

\* s.padStart(4, '0')
RECURSIVE PadStart4(_)
PadStart4(s) == IF Len(s) >= 4 THEN s ELSE PadStart4(<< "0" >> \o s)

\* Array(n).fill('0000')
ZeroGroups(n) == [i \in 1..n |-> << "0", "0", "0", "0" >>]

StartsWithDoubleColon(t) == Len(t) >= 2 /\ t[1] = ":" /\ t[2] = ":"

EndsWithDoubleColon(t) == Len(t) >= 2 /\ t[Len(t)] = ":" /\ t[Len(t) - 1] = ":"

IncludesDoubleColon(t) == \E i \in 1..(Len(t) - 1) : t[i] = ":" /\ t[i + 1] = ":"

Includes(t, c) == \E i \in 1..Len(t) : t[i] = c

(***************************************************************************)
(* Number parsing and formatting                                           *)
(***************************************************************************)

\* The value Number(s) or parseInt(s, 16) gives for a string that is no number.
NaN == -1

RECURSIVE DecOf(_, _)
DecOf(s, acc) == IF s = << >> THEN acc ELSE DecOf(Tail(s), acc * 10 + DecValue(Head(s)))

\* Number(s) for the strings split('.') yields here: digits, the empty string
\* (which is 0) or something that is no decimal number.
Number(s) ==
  IF s = << >> THEN 0
  ELSE IF \A i \in 1..Len(s) : IsDecDigit(s[i]) THEN DecOf(s, 0)
  ELSE NaN

\* n.toString(10) for n >= 0
RECURSIVE DecString(_)
DecString(n) ==
  IF n < 10 THEN << DecDigits[n + 1] >>
  ELSE Append(DecString(n \div 10), DecDigits[(n % 10) + 1])

\* parseInt(s, 16): the longest prefix of hex digits, NaN when there is none.
RECURSIVE HexPrefixOf(_, _, _)
HexPrefixOf(s, i, acc) ==
  IF i > Len(s) \/ ~IsHexDigit(s[i]) THEN acc
  ELSE HexPrefixOf(s, i + 1, acc * 16 + HexValue(s[i]))

ParseIntHex(s) ==
  IF s = << >> \/ ~IsHexDigit(s[1]) THEN NaN ELSE HexPrefixOf(s, 1, 0)

\* n.toString(16) for n >= 0
RECURSIVE HexString(_)
HexString(n) ==
  IF n < 16 THEN << HexDigits[n + 1] >>
  ELSE Append(HexString(n \div 16), HexDigits[(n % 16) + 1])

(***************************************************************************)
(* src/utils/ipUtils.ts, IPv4                                              *)
(***************************************************************************)

detectIpVersion(ip) == IF Includes(ip, ":") THEN "IPv6" ELSE "IPv4"

\* Bit i (0..30) of a non-negative number.
BitOf(n, i) == (n \div (2 ^ i)) % 2

\* Bit i (0..31) of the int32 (p << k), p >= 0.
ShlBit(p, k, i) == IF i < k \/ i - k > 30 THEN 0 ELSE BitOf(p, i - k)

RECURSIVE SumBits(_, _)
SumBits(b, i) == IF i < 0 THEN 0 ELSE b[i] * (2 ^ i) + SumBits(b, i - 1)

\* The int32 with bits b[0..31] (two's complement).
Int32OfBits(b) == SumBits(b, 30) + (IF b[31] = 1 THEN (-2147483647) - 1 ELSE 0)

Max2(x, y) == IF x >= y THEN x ELSE y

\* ip.split('.').map(Number), given the split text.
MapNumber(s) == [i \in 1..Len(s) |-> Number(s[i])]

\* parts.length !== 4 || parts.some(isNaN)
PartsInvalid(parts) == Len(parts) # 4 \/ \E i \in 1..Len(parts) : parts[i] = NaN

ipv4ToNumberThrows(ip) == PartsInvalid(MapNumber(Split(ip, ".")))

\* (parts[0] << 24) | (parts[1] << 16) | (parts[2] << 8) | parts[3], an int32.
\* Parts below 256 occupy disjoint bytes, so the bitwise or is a sum whose top
\* byte is read as signed; larger parts overlap and are or-ed bit by bit.
OrShifted(parts) ==
  IF \A i \in 1..4 : parts[i] < 256
    THEN (IF parts[1] >= 128 THEN parts[1] - 256 ELSE parts[1]) * 16777216
           + parts[2] * 65536 + parts[3] * 256 + parts[4]
    ELSE Int32OfBits([i \in 0..31 |->
           Max2(Max2(ShlBit(parts[1], 24, i), ShlBit(parts[2], 16, i)),
                Max2(ShlBit(parts[3], 8, i), ShlBit(parts[4], 0, i)))])

ipv4ToNumber(ip) == OrShifted(MapNumber(Split(ip, ".")))

\* (num >>> s) & 255 of an int32 is the floor quotient's low byte.
numberToIpv4(num) ==
  Join(<< DecString((num \div 16777216) % 256),
          DecString((num \div 65536) % 256),
          DecString((num \div 256) % 256),
          DecString(num % 256) >>, ".")

\* ipv4Regex.test(ip) and the range test of every part, given ip.split('.').
Ipv4PartsValid(s) ==
  /\ Len(s) = 4
  /\ \A i \in 1..4 : /\ Len(s[i]) \in 1..3
                     /\ \A j \in 1..Len(s[i]) : IsDecDigit(s[i][j])
  /\ \A i \in 1..4 : Number(s[i]) >= 0 /\ Number(s[i]) <= 255

isValidIpv4(ip) == Ipv4PartsValid(Split(ip, "."))

(***************************************************************************)
(* src/utils/ipUtils.ts, IPv6                                              *)
(***************************************************************************)

\* What a function that may throw yields: the value, or the fact that it threw.
Thrown == [throws |-> TRUE, value |-> << >>]

Returned(v) == [throws |-> FALSE, value |-> v]

PadAll(parts) == [i \in 1..Len(parts) |-> PadStart4(parts[i])]

\* [...left, ...Array(missing).fill('0000'), ...right] padded and joined, or
\* the throw when more than eight segments are given.
ExpandSegments(left, right) ==
  IF (8 - Len(left)) - Len(right) < 0 THEN Thrown
  ELSE Returned(Join(PadAll(left \o ZeroGroups((8 - Len(left)) - Len(right)) \o right), ":"))

\* part ? part.split(':').filter(Boolean) : []
SegmentsOf(part) == IF part # << >> THEN FilterNonEmpty(Split(part, ":")) ELSE << >>

\* The branch of expandIpv6 for a text with "::" strictly inside, or without
\* "::", given ip.split('::').
ExpandInner(ip, parts) ==
  IF Len(parts) = 2 THEN ExpandSegments(SegmentsOf(parts[1]), SegmentsOf(parts[2]))
  ELSE IF Len(parts) = 1 /\ ~IncludesDoubleColon(ip)
    THEN ExpandSegments(FilterNonEmpty(Split(ip, ":")), << >>)
  ELSE Thrown

\* ip.trim() is the identity on the texts modelled (no white space).
expandIpv6(ip) ==
  IF ip = << >> THEN Thrown
  ELSE IF ip = << ":", ":" >> THEN Returned(Join(ZeroGroups(8), ":"))
  ELSE IF StartsWithDoubleColon(ip)
    THEN ExpandSegments(<< >>, FilterNonEmpty(Split(SubSeq(ip, 3, Len(ip)), ":")))
  ELSE IF EndsWithDoubleColon(ip)
    THEN ExpandSegments(FilterNonEmpty(Split(SubSeq(ip, 1, Len(ip) - 2), ":")), << >>)
  ELSE ExpandInner(ip, SplitDoubleColon(ip))

\* The loop of compressIpv6 over normalized[i..]: << longestStart, longestLength >>
\* once the final comparison after the loop is made.  Indices are 0-based.
RECURSIVE LongestZeroRun(_, _, _, _, _, _)
LongestZeroRun(normalized, i, longestStart, longestLength, currentStart, currentLength) ==
  IF i >= Len(normalized) THEN
    IF currentLength > longestLength THEN << currentStart, currentLength >>
    ELSE << longestStart, longestLength >>
  ELSE IF normalized[i + 1] = << "0" >> THEN
    IF currentStart = -1
      THEN LongestZeroRun(normalized, i + 1, longestStart, longestLength, i, 1)
      ELSE LongestZeroRun(normalized, i + 1, longestStart, longestLength,
                          currentStart, currentLength + 1)
  ELSE IF currentLength > longestLength
    THEN LongestZeroRun(normalized, i + 1, currentStart, currentLength, -1, 0)
    ELSE LongestZeroRun(normalized, i + 1, longestStart, longestLength, -1, 0)

RECURSIVE LeadingColons(_)
LeadingColons(t) ==
  IF t # << >> /\ Head(t) = ":" THEN 1 + LeadingColons(Tail(t)) ELSE 0

RECURSIVE TrailingColons(_)
TrailingColons(t) ==
  IF t # << >> /\ t[Len(t)] = ":"
    THEN 1 + TrailingColons(SubSeq(t, 1, Len(t) - 1)) ELSE 0

\* The alternative ::+$ of the replace, on a text with trail colons at its end.
ReplaceTrailing(t, trail) ==
  IF trail >= 2 THEN SubSeq(t, 1, Len(t) - trail) \o << ":", ":" >> ELSE t

ReplaceTrailingOf(t) == ReplaceTrailing(t, TrailingColons(t))

\* The alternative ^::+ of the replace, on a text with lead colons at its
\* start; the rest of the text is then searched for ::+$.
ReplaceLeading(t, lead) ==
  IF lead >= 2
    THEN << ":", ":" >> \o ReplaceTrailingOf(SubSeq(t, lead + 1, Len(t)))
    ELSE ReplaceTrailingOf(t)

\* result.replace(/^::+|::+$/g, '::')
ReplaceEdgeColons(t) == ReplaceLeading(t, LeadingColons(t))

\* The return of the branch longestLength > 1, given result and compressed.
CompressedOr(result, compressed) ==
  IF compressed = << >> THEN << ":", ":" >>
  ELSE IF ~IncludesDoubleColon(compressed) THEN result
  ELSE compressed

\* The replacement of the longest run, given result (the join of before, ''
\* and after).
CompressResult(result) == CompressedOr(result, ReplaceEdgeColons(result))

\* The tail of compressIpv6, given normalized and << longestStart, longestLength >>.
CompressRun(normalized, run) ==
  IF run[2] > 1
    THEN CompressResult(Join(SubSeq(normalized, 1, run[1]) \o << << >> >>
                               \o SubSeq(normalized, run[1] + run[2] + 1, Len(normalized)),
                             ":"))
    ELSE Join(normalized, ":")

CompressNormalized(normalized) ==
  CompressRun(normalized, LongestZeroRun(normalized, 0, -1, 0, -1, 0))

\* parts.map(part => parseInt(part, 16).toString(16)).  The segments of an
\* expanded address are hex strings, so parseInt never yields NaN here.
Normalize(parts) == [i \in 1..Len(parts) |-> HexString(ParseIntHex(parts[i]))]

\* compressIpv6 given what expandIpv6(ip) yields; a throw returns ip unchanged.
CompressExpanded(ip, e) ==
  IF e.throws THEN ip ELSE CompressNormalized(Normalize(Split(e.value, ":")))

compressIpv6(ip) == CompressExpanded(ip, expandIpv6(ip))

\* parts.map(p => parseInt(p, 16))
MapParseIntHex(parts) == [i \in 1..Len(parts) |-> ParseIntHex(parts[i])]

\* parts.length !== 8, or a segment parseInt gives NaN for (BigInt(NaN) throws).
PartsInvalid8(parts) == Len(parts) # 8 \/ \E i \in 1..Len(parts) : parts[i] = NaN

\* ipv6ToBigInt throws when expandIpv6 does, and on a wrong segment count or a
\* segment that is no hex number.
ExpandedInvalid(e) ==
  e.throws \/ PartsInvalid8(MapParseIntHex(Split(e.value, ":")))

ipv6ToBigIntThrows(ip) == ExpandedInvalid(expandIpv6(ip))

\* result = (result << 16) | part over the eight segments.  Every text that
\* reaches this function has segments of at most four hex digits before the
\* first non-hex character, so part < 65536 and the groups do not overlap.
ipv6ToBigInt(ip) == MapParseIntHex(Split(expandIpv6(ip).value, ":"))

bigIntToIpv6(num) ==
  compressIpv6(Join([i \in 1..8 |-> PadStart4(HexString(num[i]))], ":"))

(***************************************************************************)
(* BigInt arithmetic on eight 16-bit groups                                *)
(***************************************************************************)

RECURSIVE BigLeqFrom(_, _, _)
BigLeqFrom(a, b, i) ==
  IF i > 8 THEN TRUE
  ELSE IF a[i] = b[i] THEN BigLeqFrom(a, b, i + 1)
  ELSE a[i] < b[i]

\* a <= b
BigLeq(a, b) == BigLeqFrom(a, b, 1)

\* The carry into group i (groups i+1..8 are less significant).
RECURSIVE CarryInto(_, _, _)
CarryInto(a, b, i) ==
  IF i >= 8 THEN 0 ELSE (a[i + 1] + b[i + 1] + CarryInto(a, b, i + 1)) \div 65536

\* The eight groups of a value, written out.
Groups8(f) == << f[1], f[2], f[3], f[4], f[5], f[6], f[7], f[8] >>

\* a + b; the sums formed here stay below 2^128.
BigAdd(a, b) == Groups8([i \in 1..8 |-> (a[i] + b[i] + CarryInto(a, b, i)) % 65536])

BigOne == [i \in 1..8 |-> IF i = 8 THEN 1 ELSE 0]

\* BigInt(2) ** BigInt(h), 0 <= h <= 127
BigPow2(h) == [i \in 1..8 |-> IF i = 8 - (h \div 16) THEN 2 ^ (h % 16) ELSE 0]

\* BigInt(2) ** BigInt(h) - BigInt(1), 0 <= h <= 128
BigPow2Minus1(h) ==
  [i \in 1..8 |->
     IF i > 8 - (h \div 16) THEN 65535
     ELSE IF i = 8 - (h \div 16) THEN (2 ^ (h % 16)) - 1
     ELSE 0]

\* (a >> k) = (b >> k), 0 <= k <= 128
BigShrEqual(a, b, k) ==
  \A i \in 1..8 :
    LET low == 16 * (8 - i)
    IN  IF low >= k THEN a[i] = b[i]
        ELSE IF k - low <= 15 THEN a[i] \div (2 ^ (k - low)) = b[i] \div (2 ^ (k - low))
        ELSE TRUE

(***************************************************************************)
(* src/utils/ipUtils.ts, subnet range and membership                       *)
(***************************************************************************)

\* The range of an IPv6 subnet, given networkNum and hostBits.
\* Math.pow(2, hostBits) - 1 is exact up to 2^53; above, the double rounds
\* back to 2^hostBits before BigInt() converts it.
Ipv6RangeFrom(networkNum, hostBits) ==
  IF hostBits > 64 THEN
    [start |-> bigIntToIpv6(BigAdd(networkNum, BigOne)),
     end |-> bigIntToIpv6(BigAdd(networkNum, BigPow2Minus1(hostBits))),
     total |-> [exp |-> hostBits, minus |-> 0, saturated |-> TRUE]]
  ELSE
    [start |-> bigIntToIpv6(BigAdd(networkNum, BigOne)),
     end |-> bigIntToIpv6(BigAdd(networkNum,
                IF hostBits <= 53 THEN BigPow2Minus1(hostBits)
                ELSE BigPow2(hostBits))),
     total |-> [exp |-> hostBits, minus |-> 0, saturated |-> FALSE]]

getIpv6SubnetRange(networkAddress, subnetMask) ==
  Ipv6RangeFrom(ipv6ToBigInt(networkAddress), 128 - subnetMask)

\* The int32 that >>> and & of numberToIpv4 see of the sum a + b of two int32:
\* the sum itself is exact in JavaScript, and is read modulo 2^32.
Int32Sum(a, b) ==
  IF a < 0 /\ b < 0 /\ a < ((-2147483647) - 1) - b
    THEN ((a + 2147483647) + 1) + ((b + 2147483647) + 1)
  ELSE IF a > 0 /\ b > 0 /\ a > 2147483647 - b
    THEN ((a - 2147483647) - 1) + ((b - 2147483647) - 1)
  ELSE a + b

\* The range with the network and the broadcast address left in.
Ipv4RangeInclusive(networkNum, hostBits) ==
  [start |-> numberToIpv4(networkNum),
   end |-> numberToIpv4(networkNum + ((2 ^ hostBits) - 1)),
   total |-> [exp |-> hostBits, minus |-> 0, saturated |-> FALSE]]

\* The range of an IPv4 subnet, given networkNum and hostBits: startNum is
\* networkNum + 1 and endNum is networkNum + totalHosts - 2.
Ipv4RangeFrom(networkNum, hostBits) ==
  [start |-> numberToIpv4(Int32Sum(networkNum, 1)),
   end |-> numberToIpv4(Int32Sum(networkNum, (2 ^ hostBits) - 2)),
   total |-> [exp |-> hostBits, minus |-> 2, saturated |-> FALSE]]

\* total is 2^exp - minus, or Number.MAX_SAFE_INTEGER when saturated.
getSubnetRange(networkAddress, subnetMask, ipVersion) ==
  IF ipVersion = "IPv6" THEN getIpv6SubnetRange(networkAddress, subnetMask)
  ELSE Ipv4RangeFrom(ipv4ToNumber(networkAddress), 32 - subnetMask)

isIpv6InSubnetThrows(ip, networkAddress, subnetMask) ==
  ipv6ToBigIntThrows(ip) \/ ipv6ToBigIntThrows(networkAddress)

isIpv6InSubnet(ip, networkAddress, subnetMask) ==
  BigShrEqual(ipv6ToBigInt(ip), ipv6ToBigInt(networkAddress), 128 - subnetMask)

isIpInSubnetThrows(ip, networkAddress, subnetMask, ipVersion) ==
  IF ipVersion = "IPv6" THEN isIpv6InSubnetThrows(ip, networkAddress, subnetMask)
  ELSE ipv4ToNumberThrows(ip) \/ ipv4ToNumberThrows(networkAddress)

\* (ipNum & mask) === (networkNum & mask) with
\* mask = (0xFFFFFFFF << (32 - subnetMask)) >>> 0: the shift count is taken
\* modulo 32, and n & mask clears the low (count) bits of the int32 n.
\* With count 31 only the sign bit is left.
MaskedEqual(ipNum, networkNum, shift) ==
  IF shift = 31 THEN (ipNum < 0) = (networkNum < 0)
  ELSE ipNum - (ipNum % (2 ^ shift)) = networkNum - (networkNum % (2 ^ shift))

isIpInSubnet(ip, networkAddress, subnetMask, ipVersion) ==
  IF ipVersion = "IPv6" THEN isIpv6InSubnet(ip, networkAddress, subnetMask)
  ELSE MaskedEqual(ipv4ToNumber(ip), ipv4ToNumber(networkAddress), (32 - subnetMask) % 32)

\* The three alternatives of ipv6Regex, on the parts split(':') gives:
\* (g:){2,7}(g)?  |  ::(g:){0,6}g  |  (g:){1,6}::  with g = [0-9a-fA-F]{0,4}.
Ipv6PartsMatch(ip, parts, n) ==
  /\ \A i \in 1..n :
       Len(parts[i]) <= 4 /\ \A j \in 1..Len(parts[i]) : IsHexDigit(parts[i][j])
  /\ \/ n \in 3..8
     \/ StartsWithDoubleColon(ip) /\ n \in 3..9
     \/ /\ n \in 4..9
        /\ parts[n] = << >> /\ parts[n - 1] = << >> /\ parts[n - 2] = << >>

Ipv6SplitMatch(ip, parts) == Ipv6PartsMatch(ip, parts, Len(parts))

Ipv6RegexTest(ip) == Ipv6SplitMatch(ip, Split(ip, ":"))

\* (ip.match(/::/g) || []).length, matches taken left to right without overlap.
RECURSIVE DoubleColonCount(_, _)
DoubleColonCount(t, i) ==
  IF i >= Len(t) THEN 0
  ELSE IF t[i] = ":" /\ t[i + 1] = ":" THEN 1 + DoubleColonCount(t, i + 2)
  ELSE DoubleColonCount(t, i + 1)

isValidIpv6(ip) ==
  IF ip = << ":", ":" >> THEN TRUE
  ELSE IF ~Ipv6RegexTest(ip) THEN FALSE
  ELSE IF DoubleColonCount(ip, 1) > 1 THEN FALSE
  ELSE ~expandIpv6(ip).throws

isValidIp(ip) == IF Includes(ip, ":") THEN isValidIpv6(ip) ELSE isValidIpv4(ip)

(***************************************************************************)
(* The data the handlers are exercised on                                  *)
(***************************************************************************)

\* "10.0.0.0"
Ip10_0_0_0 == << "1", "0", ".", "0", ".", "0", ".", "0" >>

\* "10.0.0.1"
Ip10_0_0_1 == << "1", "0", ".", "0", ".", "0", ".", "1" >>

\* "10.0.0.2"
Ip10_0_0_2 == << "1", "0", ".", "0", ".", "0", ".", "2" >>

\* "10.0.0.10"
Ip10_0_0_10 == << "1", "0", ".", "0", ".", "0", ".", "1", "0" >>

\* "10.0.0.16"
Ip10_0_0_16 == << "1", "0", ".", "0", ".", "0", ".", "1", "6" >>

\* "10.0.0.01"
Ip10_0_0_01 == << "1", "0", ".", "0", ".", "0", ".", "0", "1" >>

\* "2001:db8::"
Ip2001_db8__ == << "2", "0", "0", "1", ":", "d", "b", "8", ":", ":" >>

\* "2001:db8::1"
Ip2001_db8__1 == << "2", "0", "0", "1", ":", "d", "b", "8", ":", ":", "1" >>

\* "2001:0db8::1"
Ip2001_0db8__1 == << "2", "0", "0", "1", ":", "0", "d", "b", "8", ":", ":", "1" >>

\* "2001:db8::4"
Ip2001_db8__4 == << "2", "0", "0", "1", ":", "d", "b", "8", ":", ":", "4" >>

\* "fd00::"
IpFd00__ == << "f", "d", "0", "0", ":", ":" >>

\* "fd00::1"
IpFd00__1 == << "f", "d", "0", "0", ":", ":", "1" >>

\* "192.168.1.0", whose first octet has the top bit set
Ip192_168_1_0 == << "1", "9", "2", ".", "1", "6", "8", ".", "1", ".", "0" >>

\* "192.168.1.1"
Ip192_168_1_1 == << "1", "9", "2", ".", "1", "6", "8", ".", "1", ".", "1" >>

\* "192.168.1.2"
Ip192_168_1_2 == << "1", "9", "2", ".", "1", "6", "8", ".", "1", ".", "2" >>

\* "192.168.1.50"
Ip192_168_1_50 == << "1", "9", "2", ".", "1", "6", "8", ".", "1", ".", "5", "0" >>

\* "192.168.2.1"
Ip192_168_2_1 == << "1", "9", "2", ".", "1", "6", "8", ".", "2", ".", "1" >>

\* "0.0.0.0"
Ip0_0_0_0 == << "0", ".", "0", ".", "0", ".", "0" >>

\* "::"
Ip__ == << ":", ":" >>

\* "10.512.0.1" and "10.512.0.2": the second part is no octet
Ip10_512_0_1 == << "1", "0", ".", "5", "1", "2", ".", "0", ".", "1" >>

Ip10_512_0_2 == << "1", "0", ".", "5", "1", "2", ".", "0", ".", "2" >>

\* "192.168.1.254"
Ip192_168_1_254 == << "1", "9", "2", ".", "1", "6", "8", ".", "1", ".", "2", "5", "4" >>

\* "172.16.0.0"
Ip172_16_0_0 == << "1", "7", "2", ".", "1", "6", ".", "0", ".", "0" >>

\* "172.16.0.1"
Ip172_16_0_1 == << "1", "7", "2", ".", "1", "6", ".", "0", ".", "1" >>

\* "172.16.7.255"
Ip172_16_7_255 == << "1", "7", "2", ".", "1", "6", ".", "7", ".", "2", "5", "5" >>

\* A column that is null, and a request field that is not supplied.
NULL == "NULL"

UNDEF == "UNDEF"

\* req.user.username of the authenticated caller.
Username == "admin"

\* prisma.subnet: the rows createSubnet has stored.  A parent /28, a child /30
\* inside it, an IPv6 /126 and an IPv6 /112.
subnet ==
  ("net28" :> [networkAddress |-> Ip10_0_0_0, subnetMask |-> 28, ipVersion |-> "IPv4"]) @@
  ("net30" :> [networkAddress |-> Ip10_0_0_0, subnetMask |-> 30, ipVersion |-> "IPv4"]) @@
  ("net6" :> [networkAddress |-> Ip2001_db8__, subnetMask |-> 126, ipVersion |-> "IPv6"]) @@
  ("net112" :> [networkAddress |-> IpFd00__, subnetMask |-> 112, ipVersion |-> "IPv6"]) @@
  ("net24" :> [networkAddress |-> Ip192_168_1_0, subnetMask |-> 24, ipVersion |-> "IPv4"]) @@
  ("net16" :> [networkAddress |-> Ip172_16_0_0, subnetMask |-> 16, ipVersion |-> "IPv4"])

MetaFields == {"hostname", "macAddress", "deviceName", "assignedTo", "description"}

\* The body of a request without any optional field.
NoData ==
  [hostname |-> UNDEF, macAddress |-> UNDEF, deviceName |-> UNDEF,
   assignedTo |-> UNDEF, description |-> UNDEF, status |-> UNDEF]

FullData ==
  [hostname |-> "host", macAddress |-> "mac", deviceName |-> "device",
   assignedTo |-> "owner", description |-> "note", status |-> UNDEF]

\* Number of requests the model lets the callers make.
MaxRequests == 3

Procs == {1, 2}

(***************************************************************************)
(* State                                                                   *)
(***************************************************************************)

VARIABLES
  ipAddress,         \* prisma.ipAddress: address text -> row (the row's id is its key)
  reservation,       \* prisma.reservation: id -> row
  ipHistory,         \* prisma.ipHistory: a bag of rows
  reservationCount,  \* number of reservation ids handed out
  requests,          \* number of requests begun
  pc,                \* where each request handler stands (its pending await)
  req,               \* the request each handler is serving
  local,             \* its local variables
  response,          \* the response it has sent
  call               \* the call of a function of ipUtils made on its own, and what it returned

vars ==
  << ipAddress, reservation, ipHistory, reservationCount, requests, pc, req, local, response,
     call >>

EmptyTable == [k \in {} |-> NULL]

NoRequest ==
  [op |-> "none", subnetId |-> "", ipAddress |-> << >>, data |-> NoData, id |-> << >>,
   startIp |-> << >>, endIp |-> << >>, purpose |-> UNDEF, reservedBy |-> UNDEF,
   reservationId |-> 0]

NoRow == [subnetId |-> "", startIp |-> << >>, endIp |-> << >>]

NoLocal ==
  [pre |-> [ipAddress |-> EmptyTable, reservation |-> EmptyTable, ipHistory |-> EmptyBag],
   assignedIp |-> << >>, reservationId |-> 0, row |-> NoRow]

NoResponse == [status |-> 0, error |-> "", ip |-> << >>, conflicts |-> {}]

NoCall == [fn |-> "none", arg |-> << >>, mask |-> 0, mid |-> << >>, result |-> << >>]

Init ==
  /\ ipAddress = EmptyTable
  /\ reservation = EmptyTable
  /\ ipHistory = EmptyBag
  /\ reservationCount = 0
  /\ requests = 0
  /\ pc = [p \in Procs |-> "idle"]
  /\ req = [p \in Procs |-> NoRequest]
  /\ local = [p \in Procs |-> NoLocal]
  /\ response = [p \in Procs |-> NoResponse]
  /\ call = NoCall

Snapshot == [ipAddress |-> ipAddress, reservation |-> reservation, ipHistory |-> ipHistory]

\* a || b on request fields
OrElse(a, b) == IF a = UNDEF THEN b ELSE a

\* an undefined value written to a column on create
OrNull(a) == IF a = UNDEF THEN NULL ELSE a

Fail(code, message) ==
  [continue |-> FALSE, assignedIp |-> << >>,
   response |-> [status |-> code, error |-> message, ip |-> << >>, conflicts |-> {}]]

Proceed(ip) == [continue |-> TRUE, assignedIp |-> ip, response |-> NoResponse]

\* The handler answers: res.status(code).json(...)
Respond(p, r) ==
  /\ pc' = [pc EXCEPT ![p] = "done"]
  /\ response' = [response EXCEPT ![p] = r]
  /\ UNCHANGED call

\* The handler goes on to its next await.
Goto(p, label) ==
  /\ pc' = [pc EXCEPT ![p] = label]
  /\ UNCHANGED << response, call >>

\* A request arrives at an idle handler.
Accept(p, r) ==
  /\ pc[p] = "idle"
  /\ requests < MaxRequests
  /\ requests' = requests + 1
  /\ req' = [req EXCEPT ![p] = r]

(***************************************************************************)
(* ipAddress.controller: assignIpAddress                                   *)
(***************************************************************************)

\* for (let i = startNum; i <= endNum; i++): the first candidate not in the set.
RECURSIVE ScanIpv4(_, _, _)
RECURSIVE TryIpv4(_, _, _, _)
ScanIpv4(i, endNum, assignedSet) ==
  IF i > endNum THEN << >> ELSE TryIpv4(numberToIpv4(i), i, endNum, assignedSet)

\* const candidateIp = numberToIpv4(i); if (!assignedSet.has(candidateIp)) ... break
TryIpv4(candidateIp, i, endNum, assignedSet) ==
  IF candidateIp \notin assignedSet THEN candidateIp
  ELSE ScanIpv4(i + 1, endNum, assignedSet)

maxIterations == 1000

\* while (current <= endNum && iterations < maxIterations)
\* BigInt(n) for 0 <= n < 2^31
BigOfNat(n) ==
  << 0, 0, 0, 0, 0, 0, n \div 65536, n % 65536 >>

\* current in the pass that follows i increments of the start value.
CurrentIpv6(startNum, i) == BigAdd(startNum, BigOfNat(i))

\* The loop makes the pass with this current and iterations, and breaks in it:
\* current <= endNum && iterations < maxIterations, and
\* const candidateIp = bigIntToIpv6(current); if (!assignedSet.has(candidateIp)) ... break
BreaksIpv6(current, endNum, iterations, assignedSet) ==
  /\ BigLeq(current, endNum) /\ iterations < maxIterations
  /\ bigIntToIpv6(current) \notin assignedSet

\* The scan without its iteration budget: while (current <= endNum), tried here
\* one pass beyond maxIterations.
ScanIpv6Uncapped(current, endNum, iterations, assignedSet) ==
  IF \E i \in 0..maxIterations :
       /\ BigLeq(CurrentIpv6(current, i), endNum)
       /\ bigIntToIpv6(CurrentIpv6(current, i)) \notin assignedSet
    THEN bigIntToIpv6(CurrentIpv6(current,
           CHOOSE i \in 0..maxIterations :
             /\ BigLeq(CurrentIpv6(current, i), endNum)
             /\ bigIntToIpv6(CurrentIpv6(current, i)) \notin assignedSet
             /\ \A j \in 0..(i - 1) :
                  bigIntToIpv6(CurrentIpv6(current, j)) \in assignedSet))
    ELSE << >>

\* while (current <= endNum && iterations < maxIterations): the candidate of
\* the first pass that breaks, or the empty text when no pass does.  current
\* and iterations grow by one in each pass, so once the loop's condition is
\* false it stays false, and the first pass that breaks is the least i below.
ScanIpv6(current, endNum, iterations, assignedSet) ==
  IF \E i \in 0..(maxIterations - 1) :
       BreaksIpv6(CurrentIpv6(current, i), endNum, iterations + i, assignedSet)
    THEN bigIntToIpv6(CurrentIpv6(current,
           CHOOSE i \in 0..(maxIterations - 1) :
             /\ BreaksIpv6(CurrentIpv6(current, i), endNum, iterations + i, assignedSet)
             /\ \A j \in 0..(i - 1) :
                  ~BreaksIpv6(CurrentIpv6(current, j), endNum, iterations + j, assignedSet)))
    ELSE << >>

\* The rows findMany returns for the automatic path, as the set of their texts.
AssignedSet(table, subnetId) ==
  {k \in DOMAIN table :
     /\ table[k].subnetId = subnetId
     /\ table[k].status \in {"ASSIGNED", "RESERVED", "DHCP", "STATIC"}}

\* assignIpAddress up to the upsert: the schema, the subnet, the validation of a
\* supplied address or the scan for a free one.  The empty text stands for no
\* address supplied (if (ipAddress) is false for both).
\* The branch if (ipAddress) of assignIpAddress: the supplied address is
\* validated against the subnet sn and against the record stored under it.
SelectManual(sn, ip, table) ==
  IF ~isValidIp(ip) THEN Fail(400, "Invalid IP address format")
  ELSE IF isIpInSubnetThrows(ip, sn.networkAddress, sn.subnetMask, sn.ipVersion)
    THEN Fail(500, "Internal server error")
  ELSE IF ~isIpInSubnet(ip, sn.networkAddress, sn.subnetMask, sn.ipVersion)
    THEN Fail(400, "IP address is not within the subnet range")
  ELSE IF ip \in DOMAIN table /\ table[ip].status # "AVAILABLE"
    THEN Fail(409, "IP address is already assigned or reserved")
  ELSE Proceed(ip)

\* if (!assignedIp) after the scan
SelectFound(found) ==
  IF found = << >> THEN Fail(409, "No available IP addresses in this subnet")
  ELSE Proceed(found)

\* The else branch of assignIpAddress: the scan of the subnet's range for the
\* first address that is not in assignedSet.
SelectAuto(ipVersion, range, assignedSet) ==
  SelectFound(IF ipVersion = "IPv6"
                THEN ScanIpv6(ipv6ToBigInt(range.start), ipv6ToBigInt(range.end), 0,
                              assignedSet)
                ELSE ScanIpv4(ipv4ToNumber(range.start), ipv4ToNumber(range.end),
                              assignedSet))

\* assignIpAddress below the lookup of the subnet, sn being the row found.
SelectInSubnet(sn, subnetId, ip, table) ==
  IF ip # << >> THEN SelectManual(sn, ip, table)
  ELSE SelectAuto(sn.ipVersion,
                  getSubnetRange(sn.networkAddress, sn.subnetMask, sn.ipVersion),
                  AssignedSet(table, subnetId))

assignIpAddressSelect(subnetId, ip, table) ==
  IF ip # << >> /\ ~(isValidIpv4(ip) \/ isValidIpv6(ip)) THEN Fail(400, "Validation error")
  ELSE IF subnetId \notin DOMAIN subnet THEN Fail(404, "Subnet not found")
  ELSE SelectInSubnet(subnet[subnetId], subnetId, ip, table)

\* An upsert whose update branch writes the supplied fields but not the status.
UpsertWithoutStatus(table, assignedIp, subnetId, ipData) ==
  IF assignedIp \in DOMAIN table THEN
    [table EXCEPT ![assignedIp] =
       [subnetId |-> subnetId,
        status |-> @.status,
        hostname |-> OrElse(ipData.hostname, @.hostname),
        macAddress |-> OrElse(ipData.macAddress, @.macAddress),
        deviceName |-> OrElse(ipData.deviceName, @.deviceName),
        assignedTo |-> OrElse(ipData.assignedTo, @.assignedTo),
        description |-> OrElse(ipData.description, @.description)]]
  ELSE
    table @@ (assignedIp :>
       [subnetId |-> subnetId,
        status |-> OrElse(ipData.status, "ASSIGNED"),
        hostname |-> OrNull(ipData.hostname),
        macAddress |-> OrNull(ipData.macAddress),
        deviceName |-> OrNull(ipData.deviceName),
        assignedTo |-> OrElse(ipData.assignedTo, Username),
        description |-> OrNull(ipData.description)])

\* prisma.ipAddress.upsert({ where: { ipAddress: assignedIp }, update, create }),
\* one step of the store: a row with that key is updated (the fields supplied,
\* the status and the subnet), otherwise the row is created.
Upsert(table, assignedIp, subnetId, ipData) ==
  IF assignedIp \in DOMAIN table THEN
    [table EXCEPT ![assignedIp] =
       [subnetId |-> subnetId,
        status |-> OrElse(ipData.status, "ASSIGNED"),
        hostname |-> OrElse(ipData.hostname, @.hostname),
        macAddress |-> OrElse(ipData.macAddress, @.macAddress),
        deviceName |-> OrElse(ipData.deviceName, @.deviceName),
        assignedTo |-> OrElse(ipData.assignedTo, @.assignedTo),
        description |-> OrElse(ipData.description, @.description)]]
  ELSE
    table @@ (assignedIp :>
       [subnetId |-> subnetId,
        status |-> OrElse(ipData.status, "ASSIGNED"),
        hostname |-> OrNull(ipData.hostname),
        macAddress |-> OrNull(ipData.macAddress),
        deviceName |-> OrNull(ipData.deviceName),
        assignedTo |-> OrElse(ipData.assignedTo, Username),
        description |-> OrNull(ipData.description)])

\* The handler either answers with the error found or goes on to the upsert
\* holding assignedIp.
AssignSelected(p, sel) ==
  /\ local' = [local EXCEPT ![p] = [NoLocal EXCEPT !.pre = Snapshot,
                                                   !.assignedIp = sel.assignedIp]]
  /\ IF sel.continue THEN Goto(p, "assign_upsert") ELSE Respond(p, sel.response)

AssignStart(p, subnetId, ip, ipData) ==
  /\ Accept(p, [NoRequest EXCEPT !.op = "assign", !.subnetId = subnetId,
                                 !.ipAddress = ip, !.data = ipData])
  /\ AssignSelected(p, assignIpAddressSelect(subnetId, ip, ipAddress))
  /\ UNCHANGED << ipAddress, reservation, ipHistory, reservationCount >>

AssignUpsert(p) ==
  /\ pc[p] = "assign_upsert"
  /\ ipAddress' = Upsert(ipAddress, local[p].assignedIp, req[p].subnetId, req[p].data)
  /\ Goto(p, "assign_history")
  /\ UNCHANGED << reservation, ipHistory, reservationCount, requests, req, local >>

\* errorHandler on the P2002 of a unique constraint.
UniqueViolation ==
  [NoResponse EXCEPT !.status = 409, !.error = "A record with this value already exists"]

\* The other outcome of the upsert when a concurrent request has created the
\* row since this handler read the store: the upsert's own insert meets the
\* unique constraint on ipAddress, prisma throws P2002, the handler rethrows
\* and errorHandler answers.  Nothing is written.
AssignUpsertConflict(p) ==
  /\ pc[p] = "assign_upsert"
  /\ local[p].assignedIp \in DOMAIN ipAddress
  /\ local[p].assignedIp \notin DOMAIN local[p].pre.ipAddress
  /\ Respond(p, UniqueViolation)
  /\ UNCHANGED << ipAddress, reservation, ipHistory, reservationCount, requests, req, local >>

HistoryRow(id, action) == SetToBag({[ipAddressId |-> id, action |-> action]})

AssignHistory(p) ==
  /\ pc[p] = "assign_history"
  /\ ipHistory' = ipHistory (+) HistoryRow(local[p].assignedIp, "assigned")
  /\ Respond(p, [NoResponse EXCEPT !.status = 201, !.ip = local[p].assignedIp])
  /\ UNCHANGED << ipAddress, reservation, reservationCount, requests, req, local >>

(***************************************************************************)
(* ipAddress.controller: updateIpAddress, releaseIpAddress                 *)
(***************************************************************************)

\* prisma.ipAddress.update({ where: { id }, data }): the fields supplied are set.
UpdateRow(row, data) ==
  [subnetId |-> row.subnetId,
   status |-> OrElse(data.status, row.status),
   hostname |-> OrElse(data.hostname, row.hostname),
   macAddress |-> OrElse(data.macAddress, row.macAddress),
   deviceName |-> OrElse(data.deviceName, row.deviceName),
   assignedTo |-> OrElse(data.assignedTo, row.assignedTo),
   description |-> OrElse(data.description, row.description)]

UpdateStart(p, id, data) ==
  /\ Accept(p, [NoRequest EXCEPT !.op = "update", !.id = id, !.data = data])
  /\ local' = [local EXCEPT ![p] = [NoLocal EXCEPT !.pre = Snapshot]]
  /\ IF id \notin DOMAIN ipAddress
       THEN Respond(p, [NoResponse EXCEPT !.status = 404, !.error = "IP address not found"])
       ELSE Goto(p, "update_write")
  /\ UNCHANGED << ipAddress, reservation, ipHistory, reservationCount >>

UpdateWrite(p) ==
  /\ pc[p] = "update_write"
  /\ ipAddress' = [ipAddress EXCEPT ![req[p].id] = UpdateRow(@, req[p].data)]
  /\ Goto(p, "update_history")
  /\ UNCHANGED << reservation, ipHistory, reservationCount, requests, req, local >>

UpdateHistory(p) ==
  /\ pc[p] = "update_history"
  /\ ipHistory' = ipHistory (+) HistoryRow(req[p].id, "updated")
  /\ Respond(p, [NoResponse EXCEPT !.status = 200, !.ip = req[p].id])
  /\ UNCHANGED << ipAddress, reservation, reservationCount, requests, req, local >>

\* The data releaseIpAddress writes.
ReleaseRow(row) ==
  [subnetId |-> row.subnetId,
   status |-> "AVAILABLE",
   hostname |-> NULL,
   macAddress |-> NULL,
   deviceName |-> NULL,
   assignedTo |-> NULL,
   description |-> NULL]

ReleaseStart(p, id) ==
  /\ Accept(p, [NoRequest EXCEPT !.op = "release", !.id = id])
  /\ local' = [local EXCEPT ![p] = [NoLocal EXCEPT !.pre = Snapshot]]
  /\ IF id \notin DOMAIN ipAddress
       THEN Respond(p, [NoResponse EXCEPT !.status = 404, !.error = "IP address not found"])
       ELSE Goto(p, "release_write")
  /\ UNCHANGED << ipAddress, reservation, ipHistory, reservationCount >>

ReleaseWrite(p) ==
  /\ pc[p] = "release_write"
  /\ ipAddress' = [ipAddress EXCEPT ![req[p].id] = ReleaseRow(@)]
  /\ Goto(p, "release_history")
  /\ UNCHANGED << reservation, ipHistory, reservationCount, requests, req, local >>

ReleaseHistory(p) ==
  /\ pc[p] = "release_history"
  /\ ipHistory' = ipHistory (+) HistoryRow(req[p].id, "released")
  /\ Respond(p, [NoResponse EXCEPT !.status = 200, !.ip = req[p].id])
  /\ UNCHANGED << ipAddress, reservation, reservationCount, requests, req, local >>

(***************************************************************************)
(* reservation.controller: createReservation, deleteReservation            *)
(***************************************************************************)

\* createReservationSchema: /^(\d{1,3}\.){3}\d{1,3}$/
ReservationPartsMatch(s) ==
  /\ Len(s) = 4
  /\ \A i \in 1..4 : Len(s[i]) \in 1..3 /\ \A j \in 1..Len(s[i]) : IsDecDigit(s[i][j])

ReservationIpRegexTest(ip) == ReservationPartsMatch(Split(ip, "."))

\* ipAddress: { gte: startIp, lte: endIp } on the text column
InTextRange(k, startIp, endIp) == LexLeq(startIp, k) /\ LexLeq(k, endIp)

\* The rows the conflict query of createReservation returns.
ConflictingIps(table, subnetId, startIp, endIp) ==
  {k \in DOMAIN table :
     /\ table[k].subnetId = subnetId
     /\ InTextRange(k, startIp, endIp)
     /\ table[k].status \in {"ASSIGNED", "DHCP", "STATIC"}}

\* createReservation up to the creation of the reservation.
\* if (conflictingIps.length > 0), given the rows the query returned.
CheckConflicts(conflictingIps) ==
  IF conflictingIps # {}
    THEN [Fail(409, "IP range conflicts with existing assigned IPs")
            EXCEPT !.response.conflicts = conflictingIps]
    ELSE Proceed(<< >>)

\* The ordering check with startNum < endNum in place of startNum <= endNum.
CheckOrderStrict(ipVersion, subnetId, startIp, endIp, table) ==
  IF ~(IF ipVersion = "IPv6"
         THEN /\ BigLeq(ipv6ToBigInt(startIp), ipv6ToBigInt(endIp))
              /\ ipv6ToBigInt(startIp) # ipv6ToBigInt(endIp)
         ELSE ipv4ToNumber(startIp) < ipv4ToNumber(endIp))
    THEN Fail(400, "Start IP must be less than or equal to end IP")
  ELSE CheckConflicts(ConflictingIps(table, subnetId, startIp, endIp))

\* startNum > endNum, then the conflict query.
CheckOrder(ipVersion, subnetId, startIp, endIp, table) ==
  IF ~(IF ipVersion = "IPv6"
         THEN BigLeq(ipv6ToBigInt(startIp), ipv6ToBigInt(endIp))
         ELSE ipv4ToNumber(startIp) <= ipv4ToNumber(endIp))
    THEN Fail(400, "Start IP must be less than or equal to end IP")
  ELSE CheckConflicts(ConflictingIps(table, subnetId, startIp, endIp))

\* createReservation below the lookup of the subnet, sn being the row found.
CheckInSubnet(sn, subnetId, startIp, endIp, table) ==
  IF isIpInSubnetThrows(startIp, sn.networkAddress, sn.subnetMask, sn.ipVersion)
    THEN Fail(500, "Internal server error")
  ELSE IF ~isIpInSubnet(startIp, sn.networkAddress, sn.subnetMask, sn.ipVersion)
    THEN Fail(400, "IP range is not within the subnet")
  ELSE IF isIpInSubnetThrows(endIp, sn.networkAddress, sn.subnetMask, sn.ipVersion)
    THEN Fail(500, "Internal server error")
  ELSE IF ~isIpInSubnet(endIp, sn.networkAddress, sn.subnetMask, sn.ipVersion)
    THEN Fail(400, "IP range is not within the subnet")
  ELSE CheckOrder(sn.ipVersion, subnetId, startIp, endIp, table)

createReservationCheck(subnetId, startIp, endIp, table) ==
  IF ~(ReservationIpRegexTest(startIp) /\ ReservationIpRegexTest(endIp))
    THEN Fail(400, "Validation error")
  ELSE IF subnetId \notin DOMAIN subnet THEN Fail(404, "Subnet not found")
  ELSE CheckInSubnet(subnet[subnetId], subnetId, startIp, endIp, table)

maxIps == 1000

\* while (current <= endNum && count < maxIps)
RECURSIVE ReservedIpv6(_, _, _)
ReservedIpv6(current, endNum, count) ==
  IF ~(BigLeq(current, endNum) /\ count < maxIps) THEN {}
  ELSE {bigIntToIpv6(current)} \cup ReservedIpv6(BigAdd(current, BigOne), endNum, count + 1)

\* for (let i = startNum; i <= endNum && count < maxIps; i++): i and count grow
\* by one in each pass, so the loop makes the passes n = 0, 1, ... for which
\* i + n <= endNum and count + n < maxIps, and pushes numberToIpv4(i + n).
ReservedIpv4(i, endNum, count) ==
  {numberToIpv4(i + n) :
     n \in {m \in 0..((maxIps - count) - 1) : i <= endNum /\ m <= endNum - i}}

\* The ipAddress values of the rows createReservation hands to createMany.
ReservedIps(ipVersion, startIp, endIp) ==
  IF ipVersion = "IPv6"
    THEN ReservedIpv6(ipv6ToBigInt(startIp), ipv6ToBigInt(endIp), 0)
    ELSE ReservedIpv4(ipv4ToNumber(startIp), ipv4ToNumber(endIp), 0)

\* prisma.ipAddress.createMany({ data, skipDuplicates: true })
CreateManyReserved(table, ips, subnetId, purpose, reservedBy) ==
  table @@ [k \in ips |->
              [subnetId |-> subnetId,
               status |-> "RESERVED",
               hostname |-> NULL,
               macAddress |-> NULL,
               deviceName |-> NULL,
               assignedTo |-> OrElse(reservedBy, Username),
               description |-> OrNull(purpose)]]

\* The handler either answers with the error found or goes on to create the
\* reservation.
ReserveChecked(p, chk) ==
  IF chk.continue THEN Goto(p, "reserve_create") ELSE Respond(p, chk.response)

ReserveStart(p, subnetId, startIp, endIp, purpose, reservedBy) ==
  /\ Accept(p, [NoRequest EXCEPT !.op = "reserve", !.subnetId = subnetId,
                                 !.startIp = startIp, !.endIp = endIp,
                                 !.purpose = purpose, !.reservedBy = reservedBy])
  /\ local' = [local EXCEPT ![p] = [NoLocal EXCEPT !.pre = Snapshot]]
  /\ ReserveChecked(p, createReservationCheck(subnetId, startIp, endIp, ipAddress))
  /\ UNCHANGED << ipAddress, reservation, ipHistory, reservationCount >>

ReserveCreate(p) ==
  /\ pc[p] = "reserve_create"
  /\ reservationCount' = reservationCount + 1
  /\ reservation' = reservation @@ ((reservationCount + 1) :>
        [subnetId |-> req[p].subnetId,
         startIp |-> req[p].startIp,
         endIp |-> req[p].endIp,
         purpose |-> OrNull(req[p].purpose),
         reservedBy |-> OrElse(req[p].reservedBy, Username)])
  /\ local' = [local EXCEPT ![p].reservationId = reservationCount + 1]
  /\ Goto(p, "reserve_materialize")
  /\ UNCHANGED << ipAddress, ipHistory, requests, req >>

ReserveMaterialize(p) ==
  /\ pc[p] = "reserve_materialize"
  /\ ipAddress' = CreateManyReserved(ipAddress,
        ReservedIps(subnet[req[p].subnetId].ipVersion, req[p].startIp, req[p].endIp),
        req[p].subnetId, req[p].purpose, req[p].reservedBy)
  /\ Respond(p, [NoResponse EXCEPT !.status = 201])
  /\ UNCHANGED << reservation, ipHistory, reservationCount, requests, req, local >>

DeleteStart(p, id) ==
  /\ Accept(p, [NoRequest EXCEPT !.op = "delete", !.reservationId = id])
  /\ IF id \notin DOMAIN reservation
       THEN /\ local' = [local EXCEPT ![p] = [NoLocal EXCEPT !.pre = Snapshot]]
            /\ Respond(p, [NoResponse EXCEPT !.status = 404,
                                             !.error = "Reservation not found"])
       ELSE /\ local' = [local EXCEPT ![p] =
                  [NoLocal EXCEPT !.pre = Snapshot,
                                  !.row = [subnetId |-> reservation[id].subnetId,
                                           startIp |-> reservation[id].startIp,
                                           endIp |-> reservation[id].endIp]]]
            /\ IF reservation[id].subnetId \notin DOMAIN subnet
                 THEN Respond(p, [NoResponse EXCEPT !.status = 404,
                                                    !.error = "Subnet not found"])
                 ELSE Goto(p, "delete_updateMany")
  /\ UNCHANGED << ipAddress, reservation, ipHistory, reservationCount >>

\* prisma.ipAddress.updateMany({ where: { subnetId, ipAddress: { gte, lte },
\*                                        status: 'RESERVED' }, data: { status: 'AVAILABLE' } })
ReleaseReserved(table, row) ==
  [k \in DOMAIN table |->
     IF /\ table[k].subnetId = row.subnetId
        /\ InTextRange(k, row.startIp, row.endIp)
        /\ table[k].status = "RESERVED"
       THEN [table[k] EXCEPT !.status = "AVAILABLE"]
       ELSE table[k]]

DeleteUpdateMany(p) ==
  /\ pc[p] = "delete_updateMany"
  /\ ipAddress' = ReleaseReserved(ipAddress, local[p].row)
  /\ Goto(p, "delete_delete")
  /\ UNCHANGED << reservation, ipHistory, reservationCount, requests, req, local >>

\* prisma.reservation.delete throws P2025 when the row is gone, which the error
\* handler answers with 404.
DeleteDelete(p) ==
  /\ pc[p] = "delete_delete"
  /\ IF req[p].reservationId \in DOMAIN reservation
       THEN /\ reservation' = [i \in DOMAIN reservation \ {req[p].reservationId} |->
                                 reservation[i]]
            /\ Respond(p, [NoResponse EXCEPT !.status = 200])
       ELSE /\ UNCHANGED reservation
            /\ Respond(p, [NoResponse EXCEPT !.status = 404, !.error = "Record not found"])
  /\ UNCHANGED << ipAddress, ipHistory, reservationCount, requests, req, local >>

\* The response is out; the handler is free for the next request.
Finish(p) ==
  /\ pc[p] = "done"
  /\ pc' = [pc EXCEPT ![p] = "idle"]
  /\ req' = [req EXCEPT ![p] = NoRequest]
  /\ local' = [local EXCEPT ![p] = NoLocal]
  /\ response' = [response EXCEPT ![p] = NoResponse]
  /\ UNCHANGED << ipAddress, reservation, ipHistory, reservationCount, requests, call >>

(***************************************************************************)
(* The requests the callers make, and the specifications                   *)
(***************************************************************************)

\* What assignIpAddress is asked: << subnetId, ipAddress, the other fields >>.
\* The empty text asks for automatic assignment.
AssignInputs ==
  {<< "net28", << >>, NoData >>, << "net28", << >>, FullData >>,
   << "net28", Ip10_0_0_1, NoData >>, << "net28", Ip10_0_0_1, FullData >>,
   << "net28", Ip10_0_0_1, [NoData EXCEPT !.status = "DHCP"] >>,
   << "net28", Ip10_0_0_1, [NoData EXCEPT !.status = "AVAILABLE"] >>,
   << "net28", Ip10_0_0_2, NoData >>, << "net28", Ip10_0_0_10, NoData >>,
   << "net28", Ip10_0_0_01, NoData >>, << "net28", Ip10_0_0_0, NoData >>,
   << "net28", Ip10_0_0_16, NoData >>, << "net28", Ip2001_db8__1, NoData >>,
   << "net30", << >>, NoData >>, << "net30", Ip10_0_0_1, NoData >>,
   << "net30", Ip10_0_0_10, NoData >>,
   << "net6", << >>, NoData >>, << "net6", Ip2001_db8__1, NoData >>,
   << "net6", Ip2001_0db8__1, NoData >>, << "net6", Ip2001_db8__4, NoData >>,
   << "net6", Ip10_0_0_1, NoData >>,
   << "gone", << >>, NoData >>}

UpdateDataInputs ==
  {FullData,
   [NoData EXCEPT !.status = "STATIC", !.hostname = "host2"],
   [NoData EXCEPT !.status = "AVAILABLE"]}

\* An id no row has.
UnknownId == << "x" >>

\* The ids updateIpAddress and releaseIpAddress are asked about.
RecordIdInputs == {Ip10_0_0_1, Ip10_0_0_2, Ip10_0_0_10, Ip2001_db8__1, UnknownId}

\* What createReservation is asked: << subnetId, startIp, endIp, purpose, reservedBy >>.
ReserveInputs ==
  {<< "net28", Ip10_0_0_1, Ip10_0_0_2, UNDEF, UNDEF >>,
   << "net28", Ip10_0_0_1, Ip10_0_0_2, "lab", "ops" >>,
   << "net28", Ip10_0_0_2, Ip10_0_0_10, UNDEF, UNDEF >>,
   << "net28", Ip10_0_0_10, Ip10_0_0_10, UNDEF, UNDEF >>,
   << "net28", Ip10_0_0_2, Ip10_0_0_1, UNDEF, UNDEF >>,
   << "net28", Ip10_0_0_1, Ip10_0_0_16, UNDEF, UNDEF >>,
   << "net28", Ip2001_db8__1, Ip2001_db8__1, UNDEF, UNDEF >>,
   << "net30", Ip10_0_0_1, Ip10_0_0_2, UNDEF, UNDEF >>,
   << "net24", Ip192_168_1_1, Ip192_168_1_2, UNDEF, UNDEF >>,
   << "net28", Ip10_512_0_1, Ip10_512_0_2, UNDEF, UNDEF >>,
   << "net24", Ip192_168_1_2, Ip192_168_1_1, UNDEF, UNDEF >>,
   << "net6", Ip10_0_0_1, Ip10_0_0_2, UNDEF, UNDEF >>,
   << "gone", Ip10_0_0_1, Ip10_0_0_2, UNDEF, UNDEF >>}

\* Handler p takes a request.
Start(p) ==
  \/ \E a \in AssignInputs : AssignStart(p, a[1], a[2], a[3])
  \/ \E id \in RecordIdInputs, d \in UpdateDataInputs : UpdateStart(p, id, d)
  \/ \E id \in RecordIdInputs : ReleaseStart(p, id)
  \/ \E r \in ReserveInputs : ReserveStart(p, r[1], r[2], r[3], r[4], r[5])
  \/ \E id \in 1..(reservationCount + 1) : DeleteStart(p, id)

\* Handler p passes one of its awaits.
Continue(p) ==
  \/ AssignUpsert(p)
  \/ AssignHistory(p)
  \/ UpdateWrite(p)
  \/ UpdateHistory(p)
  \/ ReleaseWrite(p)
  \/ ReleaseHistory(p)
  \/ ReserveCreate(p)
  \/ ReserveMaterialize(p)
  \/ DeleteUpdateMany(p)
  \/ DeleteDelete(p)
  \/ Finish(p)

\* Requests served one at a time.
Next == Start(1) \/ Continue(1)

Spec == Init /\ [][Next]_vars

\* The requests of the concurrent callers, all on the /30.
ConcStart(p) ==
  \/ \E ip \in {<< >>, Ip10_0_0_1, Ip10_0_0_2} : AssignStart(p, "net30", ip, NoData)
  \/ \E id \in DOMAIN ipAddress : UpdateStart(p, id, [NoData EXCEPT !.status = "STATIC"])
  \/ \E id \in DOMAIN ipAddress : ReleaseStart(p, id)
  \/ ReserveStart(p, "net30", Ip10_0_0_1, Ip10_0_0_2, UNDEF, UNDEF)
  \/ \E id \in DOMAIN reservation : DeleteStart(p, id)

\* Requests served concurrently: the handlers interleave at their awaits.
ConcNext == \E p \in Procs : ConcStart(p) \/ Continue(p) \/ AssignUpsertConflict(p)

ConcSpec == Init /\ [][ConcNext]_vars

\* The first n addresses assignIpAddress hands out in an empty IPv6 subnet.
FirstAssigned(subnetId, n) ==
  {bigIntToIpv6(BigAdd(ipv6ToBigInt(subnet[subnetId].networkAddress), BigOfNat(i))) :
     i \in 1..n}

\* The rows n automatic assignments without other fields leave in a subnet.
AssignedRows(subnetId, n) ==
  [k \in FirstAssigned(subnetId, n) |-> Upsert(EmptyTable, k, subnetId, NoData)[k]]

\* The store after maxIterations automatic assignments in the /112 and three in
\* the /126, which fill the /126.
BusyInit ==
  /\ ipAddress = AssignedRows("net112", maxIterations) @@ AssignedRows("net6", 3)
  /\ ipHistory = SetToBag({[ipAddressId |-> k, action |-> "assigned"] :
                             k \in FirstAssigned("net112", maxIterations)
                                     \cup FirstAssigned("net6", 3)})
  /\ reservation = EmptyTable
  /\ reservationCount = 0
  /\ requests = 0
  /\ pc = [p \in Procs |-> "idle"]
  /\ req = [p \in Procs |-> NoRequest]
  /\ local = [p \in Procs |-> NoLocal]
  /\ response = [p \in Procs |-> NoResponse]
  /\ call = NoCall

\* The requests made of the busy store.
BusyStart(p) ==
  \/ \E subnetId \in {"net112", "net6"} : AssignStart(p, subnetId, << >>, NoData)
  \/ \E id \in {IpFd00__1, Ip2001_db8__1} : ReleaseStart(p, id)

BusyNext ==
  \/ BusyStart(1)
  \/ AssignUpsert(1)
  \/ AssignHistory(1)
  \/ ReleaseWrite(1)
  \/ ReleaseHistory(1)
  \/ Finish(1)

BusySpec == BusyInit /\ [][BusyNext]_vars

(***************************************************************************)
(* The functions of ipUtils called on their own                            *)
(***************************************************************************)

\* An unsigned 32-bit number n is written << n \div 65536, n % 65536 >>.
\* ToInt32(n): the int32 the operators >>> and & of numberToIpv4 see.
ToInt32(n) == (IF n[1] >= 32768 THEN n[1] - 65536 ELSE n[1]) * 65536 + n[2]

\* The unsigned 32-bit numbers numberToIpv4 is given.
Uint32Inputs ==
  {<< hi, lo >> : hi \in {0, 1, 2560, 32767, 32768, 49320, 65535},
                 lo \in {0, 1, 257, 65534, 65535}}

\* The dotted quads ipv4ToNumber is given, the last with a leading zero.
Ipv4TextInputs ==
  {Join(<< DecString(a), DecString(b), DecString(c), DecString(d) >>, ".") :
     a \in {0, 10, 127, 128, 192, 255}, b \in {0, 168}, c \in {0, 255}, d \in {0, 1, 254}}
    \cup {Ip10_0_0_01}

\* The 128-bit numbers bigIntToIpv6 is given, as eight 16-bit groups: every
\* pattern of zero and non-zero groups, and groups of one to four hex digits.
BigIntInputs ==
  {Groups8(f) : f \in [1..8 -> {0, 1}]}
    \cup {<< 8193, 3512, 0, 0, 0, 0, 0, 1 >>,
          << 65535, 65535, 65535, 65535, 65535, 65535, 65535, 65535 >>,
          << 4096, 0, 256, 0, 16, 0, 0, 10 >>,
          << 65152, 0, 0, 0, 0, 43981, 0, 0 >>}

\* Pairs of spellings of one IPv6 address.
SpellingPairs ==
  {<< << "2", "0", "0", "1", ":", "0", "d", "b", "8", ":", "0", "0", "0", "0", ":", "0", "0", "0", "0", ":", "0", "0", "0", "0", ":", "0", "0", "0", "0", ":", "0", "0", "0", "0", ":", "0", "0", "0", "1" >>,
      << "2", "0", "0", "1", ":", "d", "b", "8", ":", ":", "1" >> >>,
   << << "2", "0", "0", "1", ":", "0", "d", "b", "8", ":", ":", "1" >>,
      << "2", "0", "0", "1", ":", "d", "b", "8", ":", ":", "1" >> >>,
   << << "2", "0", "0", "1", ":", "D", "B", "8", ":", ":", "1" >>,
      << "2", "0", "0", "1", ":", "d", "b", "8", ":", ":", "1" >> >>,
   << << "0", ":", "0", ":", "0", ":", "0", ":", "0", ":", "0", ":", "0", ":", "1" >>,
      << ":", ":", "1" >> >>,
   << << "0", ":", "0", ":", "0", ":", "0", ":", "0", ":", "0", ":", "0", ":", "0" >>,
      << ":", ":" >> >>,
   << << "1", ":", "0", ":", "0", ":", "0", ":", "0", ":", "0", ":", "0", ":", "0" >>,
      << "1", ":", ":" >> >>,
   << << "2", "0", "0", "1", ":", "d", "b", "8", ":", "0", ":", "0", ":", "1", ":", "0", ":", "0", ":", "1" >>,
      << "2", "0", "0", "1", ":", "d", "b", "8", ":", ":", "1", ":", "0", ":", "0", ":", "1" >> >>,
   << << "f", "e", "8", "0", ":", "0", ":", "0", ":", "0", ":", "0", ":", "0", ":", "0", ":", "1" >>,
      << "f", "e", "8", "0", ":", ":", "0", ":", "1" >> >>,
   << << "2", "0", "0", "1", ":", "d", "b", "8", ":", "0", ":", "1", ":", "0", ":", "0", ":", "0", ":", "0" >>,
      << "2", "0", "0", "1", ":", "d", "b", "8", ":", "0", ":", "1", ":", ":" >> >>}

Ipv6TextInputs == {s[1] : s \in SpellingPairs} \cup {s[2] : s \in SpellingPairs}

\* The smallest prefix length of the subnets getSubnetRange is given.
MinPrefix == 2

\* The network addresses and prefix lengths getSubnetRange is given: the host
\* bits of the network address are zero.
RangeInputs ==
  {s \in Ipv4TextInputs \X {MinPrefix, 8, 16, 24, 28, 30, 31, 32} :
     /\ isValidIpv4(s[1])
     /\ ipv4ToNumber(s[1]) % (2 ^ (32 - s[2])) = 0}
    \cup {<< Ip192_168_1_0, 24 >>}

\* ipv6ToBigInt(text), or the fact that it threw.
TryIpv6ToBigInt(text) ==
  IF ipv6ToBigIntThrows(text) THEN Thrown ELSE Returned(ipv6ToBigInt(text))

\* What a call leaves: the function, its arguments, the value handed from the
\* first function to the second, and the result.
Called(fn, arg, mask, mid, result) ==
  [fn |-> fn, arg |-> arg, mask |-> mask, mid |-> mid, result |-> result]

\* The variables of the request handlers.
handlerVars ==
  << ipAddress, reservation, ipHistory, reservationCount, requests, pc, req, local, response >>

\* ipv4ToNumber(text) for the text numberToIpv4 returned.
NumberToIpv4Back(n, text) == Called("numberToIpv4", n, 0, text, ipv4ToNumber(text))

\* ipv4ToNumber(numberToIpv4(n))
NumberToIpv4Call(n) ==
  /\ call.fn = "none"
  /\ call' = NumberToIpv4Back(n, numberToIpv4(ToInt32(n)))
  /\ UNCHANGED handlerVars

\* numberToIpv4(num) for the number ipv4ToNumber returned.
Ipv4ToNumberBack(a, num) == Called("ipv4ToNumber", a, 0, num, numberToIpv4(num))

\* numberToIpv4(ipv4ToNumber(a))
Ipv4ToNumberCall(a) ==
  /\ call.fn = "none"
  /\ call' = Ipv4ToNumberBack(a, ipv4ToNumber(a))
  /\ UNCHANGED handlerVars

\* ipv6ToBigInt(text) for the text bigIntToIpv6 returned.
BigIntToIpv6Back(n, text) == Called("bigIntToIpv6", n, 0, text, TryIpv6ToBigInt(text))

\* ipv6ToBigInt(bigIntToIpv6(n))
BigIntToIpv6Call(n) ==
  /\ call.fn = "none"
  /\ call' = BigIntToIpv6Back(n, bigIntToIpv6(n))
  /\ UNCHANGED handlerVars

\* ipv6ToBigInt(a)
Ipv6ToBigIntCall(a) ==
  /\ call.fn = "none"
  /\ call' = Called("ipv6ToBigInt", a, 0, << >>, TryIpv6ToBigInt(a))
  /\ UNCHANGED handlerVars

\* getSubnetRange(networkAddress, subnetMask)
GetSubnetRangeCall(networkAddress, subnetMask) ==
  /\ call.fn = "none"
  /\ call' = Called("getSubnetRange", networkAddress, subnetMask, << >>,
                    getSubnetRange(networkAddress, subnetMask, "IPv4"))
  /\ UNCHANGED handlerVars

\* The IPv6 network addresses and prefix lengths getSubnetRange is given.
Ipv6RangeInputs ==
  {Ip2001_db8__, IpFd00__} \X {32, 48, 64, 75, 80, 112, 126, 128}

\* getSubnetRange(networkAddress, subnetMask, 'IPv6')
GetIpv6SubnetRangeCall(networkAddress, subnetMask) ==
  /\ call.fn = "none"
  /\ call' = Called("getIpv6SubnetRange", networkAddress, subnetMask, << >>,
                    getSubnetRange(networkAddress, subnetMask, "IPv6"))
  /\ UNCHANGED handlerVars

\* What isIpInSubnet is asked: << ip, networkAddress >>, subnetMask, ipVersion.
Ipv4SubnetInputs ==
  ({Ip192_168_1_50, Ip192_168_2_1, Ip192_168_1_0, Ip10_0_0_1, Ip0_0_0_0}
      \X {Ip192_168_1_0, Ip10_0_0_0, Ip0_0_0_0})
    \X {0, 1, 8, 16, 24, 31, 32}

Ipv6SubnetInputs ==
  ({Ip2001_db8__1, Ip2001_db8__4, IpFd00__1, Ip__} \X {Ip2001_db8__, IpFd00__, Ip__})
    \X {0, 1, 16, 32, 64, 126, 128}

\* isIpInSubnet(ip, networkAddress, subnetMask, ipVersion)
IsIpInSubnetCall(ip, networkAddress, subnetMask, ipVersion) ==
  /\ call.fn = "none"
  /\ call' = Called("isIpInSubnet", << ip, networkAddress >>, subnetMask, ipVersion,
                    isIpInSubnet(ip, networkAddress, subnetMask, ipVersion))
  /\ UNCHANGED handlerVars

\* Texts that are not four decimal octets of 0..255 each: an octet of 256, 999
\* or 512, an empty octet, three and five parts, a part that is no number.
MalformedIpv4Inputs ==
  {<< "1", "0", ".", "0", ".", "0", ".", "2", "5", "6" >>,
   << "1", "0", ".", "0", ".", "0", ".", "9", "9", "9" >>,
   << "1", "0", ".", ".", "0", ".", "1" >>,
   << "1", "0", ".", "0", ".", "0" >>,
   << "1", "0", ".", "0", ".", "0", ".", "1", ".", "2" >>,
   << "1", "0", ".", "0", ".", "0", ".", "a" >>,
   Ip10_512_0_1}

\* ipv4ToNumber(text), or the fact that it threw.
TryIpv4ToNumber(text) ==
  IF ipv4ToNumberThrows(text) THEN Thrown ELSE Returned(ipv4ToNumber(text))

\* ipv4ToNumber(a) for a text that may be malformed
ParseIpv4Call(a) ==
  /\ call.fn = "none"
  /\ call' = Called("ipv4ToNumber?", a, 0, << >>, TryIpv4ToNumber(a))
  /\ UNCHANGED handlerVars

\* Texts that are no IPv6 address: three groups without "::", "::" twice, a
\* group of five digits, a group that is no hex number, nine groups.
MalformedIpv6Inputs ==
  {<< "1", ":", "2", ":", "3" >>,
   << "1", ":", ":", "2", ":", ":", "3" >>,
   << ":", ":", "1", ":", ":" >>,
   << "1", "2", "3", "4", "5", ":", ":", "1" >>,
   << "g", ":", ":", "1" >>,
   << "1", ":", "2", ":", "3", ":", "4", ":", "5", ":", "6", ":", "7", ":", "8", ":", "9" >>}

\* ipv6ToBigInt(a) and isValidIpv6(a) for a text that may be malformed
ParseIpv6Call(a) ==
  /\ call.fn = "none"
  /\ call' = Called("ipv6ToBigInt?", a, 0, isValidIpv6(a), TryIpv6ToBigInt(a))
  /\ UNCHANGED handlerVars

\* The caller takes the result.
Return ==
  /\ call.fn # "none"
  /\ call' = NoCall
  /\ UNCHANGED handlerVars

UtilNext ==
  \/ \E n \in Uint32Inputs : NumberToIpv4Call(n)
  \/ \E a \in Ipv4TextInputs : Ipv4ToNumberCall(a)
  \/ \E n \in BigIntInputs : BigIntToIpv6Call(n)
  \/ \E a \in Ipv6TextInputs : Ipv6ToBigIntCall(a)
  \/ \E s \in RangeInputs : GetSubnetRangeCall(s[1], s[2])
  \/ \E s \in Ipv6RangeInputs : GetIpv6SubnetRangeCall(s[1], s[2])
  \/ \E a \in MalformedIpv4Inputs \cup {Ip10_0_0_1, Ip192_168_1_254} : ParseIpv4Call(a)
  \/ \E a \in MalformedIpv6Inputs \cup {Ip2001_db8__1, Ip__} : ParseIpv6Call(a)
  \/ \E s \in Ipv4SubnetInputs : IsIpInSubnetCall(s[1][1], s[1][2], s[2], "IPv4")
  \/ \E s \in Ipv6SubnetInputs : IsIpInSubnetCall(s[1][1], s[1][2], s[2], "IPv6")
  \/ Return

UtilSpec == Init /\ [][UtilNext]_vars

(***************************************************************************)
(* Properties                                                              *)
(***************************************************************************)

\* Handler p has answered a request of the given kind.
DoneWith(p, op) == pc[p] = "done" /\ req[p].op = op

AutoDone(p) == DoneWith(p, "assign") /\ req[p].ipAddress = << >>

ManualDone(p) == DoneWith(p, "assign") /\ req[p].ipAddress # << >>

\* The requests of p and q were in flight at the same time: ipHistory only
\* grows, and a completed allocation adds a row, so two answered allocations
\* that began with the same history overlapped.
Concurrent(p, q) == local[p].pre.ipHistory = local[q].pre.ipHistory

OccupiedStatuses == {"ASSIGNED", "RESERVED", "DHCP", "STATIC"}

\* The texts of the usable range [first, last] of an IPv4 subnet.
UsableIpv4(subnetId) ==
  LET sn == subnet[subnetId]
      range == getSubnetRange(sn.networkAddress, sn.subnetMask, sn.ipVersion)
  IN  {numberToIpv4(i) : i \in ipv4ToNumber(range.start)..ipv4ToNumber(range.end)}

\* The address has a record in an occupied status.
HasOccupiedRecord(table, ip) == ip \in DOMAIN table /\ table[ip].status \in OccupiedStatuses

FreeIpv4(table, subnetId) == {a \in UsableIpv4(subnetId) : ~HasOccupiedRecord(table, a)}

\* startIp <= k <= endIp as numbers (IPv4).
InNumRange(k, startIp, endIp) ==
  /\ ipv4ToNumber(startIp) <= ipv4ToNumber(k)
  /\ ipv4ToNumber(k) <= ipv4ToNumber(endIp)

\* C1: two concurrent automatic allocations in one subnet never both succeed
\* with the same address, and when exactly one address is free exactly one of
\* them succeeds.
C1_AtMostOneOccupant ==
  \A p, q \in Procs :
    (/\ p # q
     /\ AutoDone(p) /\ AutoDone(q)
     /\ req[p].subnetId = req[q].subnetId
     /\ Concurrent(p, q)) =>
      /\ ~(/\ response[p].status = 201
           /\ response[q].status = 201
           /\ response[p].ip = response[q].ip)
      /\ (/\ req[p].subnetId = "net30"
          /\ Cardinality(FreeIpv4(local[p].pre.ipAddress, "net30")) = 1
          /\ Cardinality(FreeIpv4(local[q].pre.ipAddress, "net30")) = 1) =>
           Cardinality({r \in {p, q} : response[r].status = 201}) = 1

\* C2: an automatic allocation never returns an address numerically inside the
\* range of a reservation of that subnet that is active (created, not deleted).
C2_AutoAvoidsActiveReservation ==
  \A p \in Procs :
    (AutoDone(p) /\ response[p].status = 201) =>
      \A id \in DOMAIN reservation :
        reservation[id].subnetId = req[p].subnetId =>
          ~InNumRange(response[p].ip, reservation[id].startIp, reservation[id].endIp)

\* C3: an automatic allocation on an IPv4 subnet returns the numerically
\* smallest address of the usable range that had no record in status Assigned,
\* Reserved, DHCP or Static when the request arrived.
C3_AutoReturnsSmallestFree ==
  \A p \in Procs :
    (/\ AutoDone(p)
     /\ response[p].status = 201
     /\ req[p].subnetId \in DOMAIN subnet
     /\ subnet[req[p].subnetId].ipVersion = "IPv4") =>
      LET free == FreeIpv4(local[p].pre.ipAddress, req[p].subnetId)
      IN  /\ response[p].ip \in free
          /\ \A a \in free : ipv4ToNumber(response[p].ip) <= ipv4ToNumber(a)

\* The request names a subnet that exists and a valid address inside it.
ValidInSubnet(r) ==
  /\ r.subnetId \in DOMAIN subnet
  /\ isValidIp(r.ipAddress)
  /\ LET sn == subnet[r.subnetId]
     IN  /\ ~isIpInSubnetThrows(r.ipAddress, sn.networkAddress, sn.subnetMask, sn.ipVersion)
         /\ isIpInSubnet(r.ipAddress, sn.networkAddress, sn.subnetMask, sn.ipVersion)

C5_ManualAllocationAtomic ==
  \A p, q \in Procs :
    (/\ p # q
     /\ ManualDone(p) /\ ManualDone(q)
     /\ req[p].ipAddress = req[q].ipAddress
     /\ Concurrent(p, q)
     /\ ~HasOccupiedRecord(local[p].pre.ipAddress, req[p].ipAddress)
     /\ ~HasOccupiedRecord(local[q].pre.ipAddress, req[q].ipAddress)) =>
      {response[p].status, response[q].status} = {201, 409}

\* C6: no two records denote the same 128-bit address.
C6_SpellingsCollide ==
  \A k1, k2 \in DOMAIN ipAddress :
    (k1 # k2 /\ Includes(k1, ":") /\ Includes(k2, ":")) =>
      ipv6ToBigInt(k1) # ipv6ToBigInt(k2)

\* The request passed createReservation's checks of the subnet, the endpoints
\* and their order, so the conflict query was made.
ReserveQueried(p) ==
  /\ DoneWith(p, "reserve")
  /\ response[p].status \in {201, 409}

\* The records of the subnet that lie numerically within [startIp, endIp] and
\* are Assigned, DHCP or Static.
NumericConflicts(table, subnetId, startIp, endIp) ==
  {k \in DOMAIN table :
     /\ table[k].subnetId = subnetId
     /\ InNumRange(k, startIp, endIp)
     /\ table[k].status \in {"ASSIGNED", "DHCP", "STATIC"}}

\* C7: createReservation fails with a range conflict exactly when a record of
\* the subnet numerically within [startIp, endIp] is Assigned, DHCP or Static;
\* the conflict lists exactly those records, and a failure changes nothing.
C7_ReservationConflict ==
  \A p \in Procs :
    ReserveQueried(p) =>
      LET pre == local[p].pre
          found == NumericConflicts(pre.ipAddress, req[p].subnetId,
                                    req[p].startIp, req[p].endIp)
      IN  /\ (response[p].status = 409) <=> (found # {})
          /\ response[p].status = 409 =>
               /\ response[p].conflicts = found
               /\ ipAddress = pre.ipAddress
               /\ reservation = pre.reservation

\* The record is a Reserved record of the reservation's subnet numerically
\* inside the reservation's range.
ReservedMember(table, k, row) ==
  /\ table[k].subnetId = row.subnetId
  /\ table[k].status = "RESERVED"
  /\ InNumRange(k, row.startIp, row.endIp)

DeleteSucceeded(p) == DoneWith(p, "delete") /\ response[p].status = 200

\* C8: deleteReservation makes Available every Reserved record of the subnet
\* numerically within [startIp, endIp], and the reservation no longer exists.
C8_DeleteReleasesReserved ==
  \A p \in Procs :
    DeleteSucceeded(p) =>
      /\ req[p].reservationId \notin DOMAIN reservation
      /\ \A k \in DOMAIN local[p].pre.ipAddress :
           ReservedMember(local[p].pre.ipAddress, k, local[p].row) =>
             ipAddress[k].status = "AVAILABLE"

\* C9: deleteReservation leaves unchanged every record that is not a Reserved
\* record numerically within [startIp, endIp] of the reservation's subnet.
C9_DeleteFrame ==
  \A p \in Procs :
    DeleteSucceeded(p) =>
      \A k \in DOMAIN local[p].pre.ipAddress :
        ~ReservedMember(local[p].pre.ipAddress, k, local[p].row) =>
          ipAddress[k] = local[p].pre.ipAddress[k]

\* C10: release of an existing record makes it Available with its five
\* metadata fields cleared; release of a record that is already Available
\* succeeds and changes nothing; release of an unknown id fails with 404 and
\* changes nothing.
C10_Release ==
  \A p \in Procs :
    DoneWith(p, "release") =>
      LET id == req[p].id
          pre == local[p].pre
      IN  IF id \notin DOMAIN pre.ipAddress
            THEN /\ response[p].status = 404
                 /\ ipAddress = pre.ipAddress
                 /\ ipHistory = pre.ipHistory
            ELSE /\ response[p].status = 200
                 /\ ipAddress[id].status = "AVAILABLE"
                 /\ \A f \in MetaFields : ipAddress[id][f] = NULL
                 /\ pre.ipAddress[id].status = "AVAILABLE" =>
                      /\ ipAddress = pre.ipAddress
                      /\ ipHistory = pre.ipHistory

\* Handler p has answered with a success status.
Succeeded(p) == pc[p] = "done" /\ response[p].status \in {200, 201}

\* C11: a successful allocate, release, update, createReservation or
\* deleteReservation, served alone, has added exactly one history entry when it
\* answers, and a failed one has added none.
C11_OneAuditPerMutation ==
  \A p \in Procs :
    (pc[p] = "done" /\ req[p].op \in {"assign", "release", "update", "reserve", "delete"}) =>
      IF Succeeded(p)
        THEN BagCardinality(ipHistory) = BagCardinality(local[p].pre.ipHistory) + 1
        ELSE ipHistory = local[p].pre.ipHistory

\* The number of addresses of an IPv6 subnet's usable range, start to end.
UsableCountIpv6(subnetId) == (2 ^ (128 - subnet[subnetId].subnetMask)) - 1

\* The subnet had fewer occupied records than usable addresses when the request
\* arrived, so some address of its range was free.
NotExhausted(p) ==
  Cardinality(AssignedSet(local[p].pre.ipAddress, req[p].subnetId))
    < UsableCountIpv6(req[p].subnetId)

\* What assignIpAddress answers when every address of the range is occupied.
SubnetExhausted == SelectFound(<< >>).response

\* C12: an automatic IPv6 allocation that fails although the subnet has a free
\* address (the scan ran out of its iteration budget) answers differently
\* from an allocation in a subnet whose every address is occupied.
C12_BudgetExceededDistinct ==
  \A p \in Procs :
    (/\ AutoDone(p)
     /\ req[p].subnetId \in DOMAIN subnet
     /\ subnet[req[p].subnetId].ipVersion = "IPv6"
     /\ response[p].status # 201
     /\ NotExhausted(p)) =>
      response[p] # SubnetExhausted

\* C13: an automatic allocation never surfaces the uniqueness conflict of its
\* write with a concurrent caller: when it fails, it reports that the subnet
\* has no address left.
C13_ConflictRetried ==
  \A p \in Procs :
    (AutoDone(p) /\ req[p].subnetId \in DOMAIN subnet /\ response[p].status # 201) =>
      response[p] = SubnetExhausted

\* The request supplies a well-formed address whose family is not the family
\* of the subnet it names.
FamilyMismatch(r) ==
  /\ r.subnetId \in DOMAIN subnet
  /\ isValidIp(r.ipAddress)
  /\ detectIpVersion(r.ipAddress) # subnet[r.subnetId].ipVersion

\* The errors of a manual allocation for an invalid format, an address outside
\* the subnet and an occupied address.
OtherManualErrors ==
  {"Validation error", "Invalid IP address format",
   "IP address is not within the subnet range",
   "IP address is already assigned or reserved"}

\* C14: a manual allocation of a well-formed address of the other family than
\* the subnet's fails with an error that is none of invalid format, out of
\* range and already occupied, and changes neither the records nor the history.
C14_FamilyMismatch ==
  \A p \in Procs :
    (ManualDone(p) /\ FamilyMismatch(req[p])) =>
      /\ response[p].status # 201
      /\ response[p].error \notin OtherManualErrors
      /\ ipAddress = local[p].pre.ipAddress
      /\ ipHistory = local[p].pre.ipHistory

\* first <= ip <= last for the derived range [first, last] of the subnet.
InUsableRange(ip, subnetId) ==
  LET sn == subnet[subnetId]
      range == getSubnetRange(sn.networkAddress, sn.subnetMask, sn.ipVersion)
  IN  IF sn.ipVersion = "IPv6"
        THEN /\ BigLeq(ipv6ToBigInt(range.start), ipv6ToBigInt(ip))
             /\ BigLeq(ipv6ToBigInt(ip), ipv6ToBigInt(range.end))
        ELSE ip \in UsableIpv4(subnetId)

\* C15: the address of every record lies within the derived range
\* [first, last] of the record's subnet, and so do the endpoints of every
\* reservation: a manual allocation or a reservation outside the usable range
\* is rejected.
C15_RecordsInUsableRange ==
  /\ \A k \in DOMAIN ipAddress :
       ipAddress[k].subnetId \in DOMAIN subnet => InUsableRange(k, ipAddress[k].subnetId)
  /\ \A id \in DOMAIN reservation :
       /\ InUsableRange(reservation[id].startIp, reservation[id].subnetId)
       /\ InUsableRange(reservation[id].endIp, reservation[id].subnetId)

\* The octets of a dotted quad, read as decimal numbers.
Octets(a) == MapNumber(Split(a, "."))

\* a <= b as unsigned 32-bit numbers: the octets compare in dictionary order.
NumLeq(a, b) ==
  \/ Octets(a) = Octets(b)
  \/ \E i \in 1..4 : /\ Octets(a)[i] < Octets(b)[i]
                     /\ \A j \in 1..(i - 1) : Octets(a)[j] = Octets(b)[j]

\* The address passes the subnet check of the handlers.
InSubnet(ip, sn) ==
  /\ ~isIpInSubnetThrows(ip, sn.networkAddress, sn.subnetMask, sn.ipVersion)
  /\ isIpInSubnet(ip, sn.networkAddress, sn.subnetMask, sn.ipVersion)

InvalidOrder == "Start IP must be less than or equal to end IP"

\* A reservation request for two valid IPv4 addresses of an existing subnet.
ReserveDoneIpv4(p) ==
  /\ DoneWith(p, "reserve")
  /\ req[p].subnetId \in DOMAIN subnet
  /\ isValidIpv4(req[p].startIp) /\ isValidIpv4(req[p].endIp)

C17_Ipv6RoundTrip ==
  /\ (call.fn = "bigIntToIpv6") => (call.result = Returned(call.arg))
  /\ (call.fn = "ipv6ToBigInt") =>
       (/\ ~call.result.throws
        /\ \A s \in SpellingPairs :
             (call.arg \in {s[1], s[2]}) =>
               (/\ call.result = TryIpv6ToBigInt(s[1])
                /\ call.result = TryIpv6ToBigInt(s[2])))

\* The JavaScript number r is the unsigned 32-bit number n.
NumberIsUint32(r, n) == n[1] < 32768 /\ r = n[1] * 65536 + n[2]

\* A dotted quad with each part written without leading zeros.
CanonicalIpv4(a) ==
  Join([i \in 1..4 |-> DecString(Number(Split(a, ".")[i]))], ".")

\* C18: ipv4ToNumber(numberToIpv4(n)) is n for every unsigned 32-bit number n,
\* and numberToIpv4(ipv4ToNumber(a)) is the canonical form of a for every valid
\* IPv4 text a.
C18_Ipv4RoundTrip ==
  /\ (call.fn = "numberToIpv4") => NumberIsUint32(call.result, call.arg)
  /\ (call.fn = "ipv4ToNumber" /\ isValidIpv4(call.arg)) =>
       (call.result = CanonicalIpv4(call.arg))

\* The number of zero groups of n in a row from group i on.
RECURSIVE ZeroRun(_, _)
ZeroRun(n, i) == IF i > 8 \/ n[i] # 0 THEN 0 ELSE 1 + ZeroRun(n, i + 1)

\* The length of the longest run of zero groups of n, and where the leftmost
\* run of that length starts.
LongestRunLength(n) ==
  CHOOSE l \in 0..8 : /\ \A i \in 1..8 : ZeroRun(n, i) <= l
                      /\ \E j \in 1..8 : ZeroRun(n, j) = l

LeftmostLongestRun(n) ==
  CHOOSE i \in 1..8 : /\ ZeroRun(n, i) = LongestRunLength(n)
                      /\ \A j \in 1..(i - 1) : ZeroRun(n, j) < LongestRunLength(n)

\* Groups from..to of n in hex without leading zeros, joined with ":".
HexGroups(n, from, to) == Join([i \in 1..((to - from) + 1) |-> HexString(n[(from + i) - 1])], ":")

\* The canonical text of the 128-bit number n: the leftmost longest run of at
\* least two zero groups is written "::", nothing else is compressed.
CanonicalIpv6(n) ==
  IF LongestRunLength(n) < 2 THEN HexGroups(n, 1, 8)
  ELSE HexGroups(n, 1, LeftmostLongestRun(n) - 1) \o << ":", ":" >>
         \o HexGroups(n, LeftmostLongestRun(n) + LongestRunLength(n), 8)

\* C19: bigIntToIpv6 returns, for every 128-bit number, the canonical text: the
\* eight groups without leading zeros, the leftmost longest run of at least
\* two zero groups replaced by one "::", and no other compression.
C19_CanonicalIpv6 ==
  (call.fn = "bigIntToIpv6") => (call.mid = CanonicalIpv6(call.arg))

\* The unsigned 32-bit number a dotted quad stands for.
Uint32OfText(a) ==
  << Octets(a)[1] * 256 + Octets(a)[2], Octets(a)[3] * 256 + Octets(a)[4] >>

\* n + k for an unsigned 32-bit number n and 0 <= k < 2^31 - 2^16.
Uint32Add(n, k) ==
  << (n[1] + ((n[2] + k) \div 65536)) % 65536, (n[2] + k) % 65536 >>

\* The dotted quad of an unsigned 32-bit number.
TextOfUint32(n) ==
  Join(<< DecString(n[1] \div 256), DecString(n[1] % 256),
          DecString(n[2] \div 256), DecString(n[2] % 256) >>, ".")

\* The number a total of getSubnetRange stands for, 2^exp - minus.
TotalOf(t) == (2 ^ t.exp) - t.minus

\* C20: for an IPv4 subnet of prefix p <= 30, getSubnetRange returns
\* network + 1 as first, network + 2^(32-p) - 2 as last and 2^(32-p) - 2 as
\* usable count, also for a network with the top bit set;
\* 192.168.1.0/24 gives 192.168.1.1, 192.168.1.254 and 254.
C20_Ipv4Range ==
  (call.fn = "getSubnetRange" /\ call.mask <= 30) =>
    (/\ call.result.start = TextOfUint32(Uint32Add(Uint32OfText(call.arg), 1))
     /\ call.result.end =
          TextOfUint32(Uint32Add(Uint32OfText(call.arg), (2 ^ (32 - call.mask)) - 2))
     /\ ~call.result.total.saturated
     /\ TotalOf(call.result.total) = (2 ^ (32 - call.mask)) - 2
     /\ (call.arg = Ip192_168_1_0 /\ call.mask = 24) =>
          (/\ call.result.start = Ip192_168_1_1
           /\ call.result.end = Ip192_168_1_254
           /\ TotalOf(call.result.total) = 254))

\* getSubnetRange has answered for 192.168.1.0/24, a network whose top bit is
\* set.
C20_Witness ==
  /\ call.fn = "getSubnetRange"
  /\ call.arg = Ip192_168_1_0 /\ call.mask = 24
  /\ call.result.start = Ip192_168_1_1

\* C21: for an IPv4 subnet of prefix 31 or 32, getSubnetRange returns a usable
\* count of 0 or 1, never a negative one.
C21_SmallSubnetCount ==
  (call.fn = "getSubnetRange" /\ call.mask \in {31, 32}) =>
    (TotalOf(call.result.total) \in {0, 1})

\* C22: for an IPv6 subnet of prefix p, getSubnetRange returns network + 1 as
\* first, network + 2^(128-p) - 1 as last and 2^(128-p) - 1 as usable count,
\* the count replaced by the saturated maximum (2^53 - 1) when it is larger;
\* for 2001:db8::/64 the count is the saturated maximum.
C22_Ipv6Range ==
  (call.fn = "getIpv6SubnetRange") =>
    (/\ call.result.start = CanonicalIpv6(BigAdd(ipv6ToBigInt(call.arg), BigOne))
     /\ call.result.end =
          CanonicalIpv6(BigAdd(ipv6ToBigInt(call.arg), BigPow2Minus1(128 - call.mask)))
     /\ call.result.total.saturated = (128 - call.mask > 53)
     /\ (128 - call.mask <= 53) =>
          (call.result.total.exp = 128 - call.mask /\ call.result.total.minus = 1)
     /\ (call.arg = Ip2001_db8__ /\ call.mask = 64) => call.result.total.saturated)

\* The 16-bit groups a and b agree on their leading p bits.
LeadingBitsEqual(a, b, p) ==
  \A i \in 1..Len(a) :
    LET bits == IF p >= 16 * i THEN 16
                ELSE IF p <= 16 * (i - 1) THEN 0
                ELSE p - 16 * (i - 1)
    IN  a[i] \div (2 ^ (16 - bits)) = b[i] \div (2 ^ (16 - bits))

\* The 16-bit groups of an address of the given family.
GroupsOf(ip, ipVersion) ==
  IF ipVersion = "IPv6" THEN ipv6ToBigInt(ip) ELSE Uint32OfText(ip)

\* C23: isIpInSubnet is true exactly when the address and the network address
\* agree on their leading prefix bits, for every prefix from 0 to the width of
\* the family; prefix 0 contains every address, 192.168.1.0/24 contains
\* 192.168.1.50 and does not contain 192.168.2.1.
C23_Contains ==
  (call.fn = "isIpInSubnet") =>
    (call.result = LeadingBitsEqual(GroupsOf(call.arg[1], call.mid),
                                    GroupsOf(call.arg[2], call.mid), call.mask))

\* The text is exactly four dot-separated decimal octets, each 0..255.
WellFormedIpv4(a) ==
  /\ Len(Split(a, ".")) = 4
  /\ \A i \in 1..4 :
       /\ Split(a, ".")[i] # << >>
       /\ \A j \in 1..Len(Split(a, ".")[i]) : IsDecDigit(Split(a, ".")[i][j])
       /\ DecOf(Split(a, ".")[i], 0) <= 255

\* C24: ipv4ToNumber fails on every text that is not exactly four
\* dot-separated decimal octets of 0..255 each, and a reservation with such an
\* endpoint is rejected as malformed, not converted to some other address.
C24_MalformedIpv4Rejected ==
  /\ (call.fn = "ipv4ToNumber?" /\ ~WellFormedIpv4(call.arg)) => call.result.throws
  /\ \A p \in Procs :
       (/\ DoneWith(p, "reserve")
        /\ ~(WellFormedIpv4(req[p].startIp) /\ WellFormedIpv4(req[p].endIp))
        /\ ~Includes(req[p].startIp, ":")) =>
         (response[p].status = 400 /\ response[p].error = "Validation error")

\* A colon-separated list of groups of one to four hex digits each; the empty
\* text is the empty list.
HexGroupList(t) ==
  t = << >> \/ \A i \in 1..Len(Split(t, ":")) :
                 /\ Len(Split(t, ":")[i]) \in 1..4
                 /\ \A j \in 1..Len(Split(t, ":")[i]) : IsHexDigit(Split(t, ":")[i][j])

\* The number of groups of such a list.
GroupCount(t) == IF t = << >> THEN 0 ELSE Len(Split(t, ":"))

\* The text is an IPv6 address: at most one "::", groups of one to four hex
\* digits, and exactly eight groups once "::" is expanded.
WellFormedIpv6(a) ==
  \/ Len(SplitDoubleColon(a)) = 1 /\ HexGroupList(a) /\ GroupCount(a) = 8
  \/ /\ Len(SplitDoubleColon(a)) = 2
     /\ HexGroupList(SplitDoubleColon(a)[1]) /\ HexGroupList(SplitDoubleColon(a)[2])
     /\ GroupCount(SplitDoubleColon(a)[1]) + GroupCount(SplitDoubleColon(a)[2]) <= 7

\* C25: ipv6ToBigInt fails on, and isValidIpv6 is false for, every text with
\* more than one "::", with a group that is not one to four hex digits, or
\* that does not expand to exactly eight groups, such as 1:2:3.
C25_MalformedIpv6Rejected ==
  (call.fn = "ipv6ToBigInt?" /\ ~WellFormedIpv6(call.arg)) =>
    (call.result.throws /\ ~call.mid)

\* C26: an allocation, manual or automatic, leaves every record as it was whose
\* status before the operation was Assigned, Reserved, DHCP or Static, also a
\* record of another subnet whose range overlaps the subnet of the request.
C26_AllocateKeepsOccupied ==
  \A p \in Procs :
    DoneWith(p, "assign") =>
      \A k \in DOMAIN local[p].pre.ipAddress :
        local[p].pre.ipAddress[k].status \in OccupiedStatuses =>
          (k \in DOMAIN ipAddress /\ ipAddress[k] = local[p].pre.ipAddress[k])

\* The first min(n, maxIps) addresses of the range [startIp, endIp] of n IPv4
\* addresses, in ascending numeric order.
FirstOfRange(startIp, endIp) ==
  {numberToIpv4(i) :
     i \in ipv4ToNumber(startIp)..
             (IF ipv4ToNumber(endIp) - ipv4ToNumber(startIp) >= maxIps
                THEN ipv4ToNumber(startIp) + (maxIps - 1)
                ELSE ipv4ToNumber(endIp))}

\* C27: after a successful createReservation every one of the first
\* min(n, 1000) addresses of the range has a record with status Reserved,
\* whether or not it had a record before, and no other record is created.
C27_ReservationMaterialized ==
  \A p \in Procs :
    (/\ DoneWith(p, "reserve") /\ response[p].status = 201
     /\ isValidIpv4(req[p].startIp) /\ isValidIpv4(req[p].endIp)) =>
      /\ \A k \in FirstOfRange(req[p].startIp, req[p].endIp) :
           k \in DOMAIN ipAddress /\ ipAddress[k].status = "RESERVED"
      /\ (DOMAIN ipAddress) \ (DOMAIN local[p].pre.ipAddress)
           \subseteq FirstOfRange(req[p].startIp, req[p].endIp)

\* The records of the table whose address lies in [startIp, endIp] and whose
\* status is Assigned, DhcpManaged or StaticManaged.
OccupiedInRange(table, startIp, endIp) ==
  {k \in DOMAIN table :
     /\ NumLeq(startIp, k) /\ NumLeq(k, endIp)
     /\ table[k].status \in {"ASSIGNED", "DHCP", "STATIC"}}

\* C28: createReservation's conflict check and the creation of the Reservation
\* are atomic relative to concurrent allocations: whenever a handler creates
\* the Reservation entity, no address of its range is Assigned, DhcpManaged or
\* StaticManaged at that moment.
C28_ReserveAtomic ==
  [][\A p \in Procs :
       ReserveCreate(p) =>
         OccupiedInRange(ipAddress, req[p].startIp, req[p].endIp) = {}]_vars

(***************************************************************************)
(* The range scans at their caps                                           *)
(***************************************************************************)

\* The requests made of the busy store: automatic allocations in the full
\* IPv6 subnets and in the /30, and a reservation of 2047 addresses of the /16.
ScanStart(p) ==
  \/ \E subnetId \in {"net112", "net6", "net30"} : AssignStart(p, subnetId, << >>, NoData)
  \/ \E id \in {IpFd00__1, Ip10_0_0_1} : ReleaseStart(p, id)
  \/ UpdateStart(p, Ip10_0_0_1, [NoData EXCEPT !.status = "STATIC"])
  \/ \E r \in {<< "net16", Ip172_16_0_1, Ip172_16_7_255 >>,
               << "net30", Ip10_0_0_1, Ip10_0_0_2 >>} :
       ReserveStart(p, r[1], r[2], r[3], UNDEF, UNDEF)
  \/ \E id \in 1..(reservationCount + 1) : DeleteStart(p, id)

ScanNext == ScanStart(1) \/ Continue(1)

ScanSpec == BusyInit /\ [][ScanNext]_vars

\* The address is one of the first maxIterations candidates from startNum on.
InScanWindow(ip, startNum) ==
  /\ BigLeq(startNum, ipv6ToBigInt(ip))
  /\ BigLeq(ipv6ToBigInt(ip), BigAdd(startNum, BigOfNat(maxIterations - 1)))

\* What an answered request shows of the bounds of its scan.
ScansBounded ==
  \A p \in Procs :
    /\ (AutoDone(p) /\ response[p].status = 201 /\ req[p].subnetId \in DOMAIN subnet) =>
         IF subnet[req[p].subnetId].ipVersion = "IPv6"
           THEN InScanWindow(response[p].ip,
                  ipv6ToBigInt(getSubnetRange(subnet[req[p].subnetId].networkAddress,
                                              subnet[req[p].subnetId].subnetMask,
                                              "IPv6").start))
           ELSE InUsableRange(response[p].ip, req[p].subnetId)
    /\ (DoneWith(p, "reserve") /\ response[p].status = 201) =>
         Cardinality((DOMAIN ipAddress) \ (DOMAIN local[p].pre.ipAddress)) <= maxIps
    /\ pc[p] = "done" => response[p].status # 0

\* The positions of a handler in the order it passes them: a request is
\* accepted at idle, passes at most two awaits and is answered at done.
StepRank ==
  ("idle" :> 0) @@ ("assign_upsert" :> 1) @@ ("assign_history" :> 2) @@
  ("update_write" :> 1) @@ ("update_history" :> 2) @@
  ("release_write" :> 1) @@ ("release_history" :> 2) @@
  ("reserve_create" :> 1) @@ ("reserve_materialize" :> 2) @@
  ("delete_updateMany" :> 1) @@ ("delete_delete" :> 2) @@ ("done" :> 3)

\* Every step is a step of some handler, and it moves that handler forward in
\* the order of its positions, or from done back to idle.
HandlerAdvances ==
  /\ \E p \in Procs : pc'[p] # pc[p]
  /\ \A p \in Procs :
       /\ pc'[p] \in DOMAIN StepRank
       /\ pc'[p] # pc[p] =>
            \/ pc[p] = "done" /\ pc'[p] = "idle"
            \/ StepRank[pc'[p]] > StepRank[pc[p]]

C30_AvailableHasNoMetadata ==
  \A k \in DOMAIN ipAddress :
    ipAddress[k].status = "AVAILABLE" =>
      \A f \in MetaFields : ipAddress[k][f] = NULL

====
